---- MODULE Spec2Model ----
(***************************************************************************)
(* Model of the go-env struct-population library (package env, env.go).   *)
(*                                                                         *)
(* Go strings are modelled as sequences of one-character strings, so that *)
(* strings.Split, strings.TrimSpace, strings.ToLower/ToUpper and the       *)
(* strconv parsers are computed character by character.                   *)
(***************************************************************************)
EXTENDS Integers, Sequences, FiniteSets, TLC

(***************************************************************************)
(* strings / strconv helpers                                               *)
(***************************************************************************)

\* unicode.IsSpace restricted to the white space of the model's alphabet
WhiteSpace == {" ", "\t"}

Digits == {"0", "1", "2", "3", "4", "5", "6", "7", "8", "9"}

DigitVal ==
  [c \in Digits |->
     CASE c = "0" -> 0 [] c = "1" -> 1 [] c = "2" -> 2 [] c = "3" -> 3
       [] c = "4" -> 4 [] c = "5" -> 5 [] c = "6" -> 6 [] c = "7" -> 7
       [] c = "8" -> 8 [] c = "9" -> 9]

LowerLetters ==
  {"a", "b", "c", "d", "e", "f", "g", "h", "i", "j", "k", "l", "m",
   "n", "o", "p", "q", "r", "s", "t", "u", "v", "w", "x", "y", "z"}

UpperLetters ==
  {"A", "B", "C", "D", "E", "F", "G", "H", "I", "J", "K", "L", "M",
   "N", "O", "P", "Q", "R", "S", "T", "U", "V", "W", "X", "Y", "Z"}

\* unicode.ToLower on one ASCII character
LowerCh(c) ==
  CASE c = "A" -> "a" [] c = "B" -> "b" [] c = "C" -> "c" [] c = "D" -> "d"
    [] c = "E" -> "e" [] c = "F" -> "f" [] c = "G" -> "g" [] c = "H" -> "h"
    [] c = "I" -> "i" [] c = "J" -> "j" [] c = "K" -> "k" [] c = "L" -> "l"
    [] c = "M" -> "m" [] c = "N" -> "n" [] c = "O" -> "o" [] c = "P" -> "p"
    [] c = "Q" -> "q" [] c = "R" -> "r" [] c = "S" -> "s" [] c = "T" -> "t"
    [] c = "U" -> "u" [] c = "V" -> "v" [] c = "W" -> "w" [] c = "X" -> "x"
    [] c = "Y" -> "y" [] c = "Z" -> "z" [] OTHER -> c

\* unicode.ToUpper on one ASCII character
UpperCh(c) ==
  CASE c = "a" -> "A" [] c = "b" -> "B" [] c = "c" -> "C" [] c = "d" -> "D"
    [] c = "e" -> "E" [] c = "f" -> "F" [] c = "g" -> "G" [] c = "h" -> "H"
    [] c = "i" -> "I" [] c = "j" -> "J" [] c = "k" -> "K" [] c = "l" -> "L"
    [] c = "m" -> "M" [] c = "n" -> "N" [] c = "o" -> "O" [] c = "p" -> "P"
    [] c = "q" -> "Q" [] c = "r" -> "R" [] c = "s" -> "S" [] c = "t" -> "T"
    [] c = "u" -> "U" [] c = "v" -> "V" [] c = "w" -> "W" [] c = "x" -> "X"
    [] c = "y" -> "Y" [] c = "z" -> "Z" [] OTHER -> c

\* strings.ToLower
ToLower(s) == [i \in 1..Len(s) |-> LowerCh(s[i])]

\* strings.ToUpper
ToUpper(s) == [i \in 1..Len(s) |-> UpperCh(s[i])]

RECURSIVE TrimLeft(_)
TrimLeft(s) ==
  IF s = <<>> THEN s
  ELSE IF Head(s) \in WhiteSpace THEN TrimLeft(Tail(s)) ELSE s

RECURSIVE TrimRight(_)
TrimRight(s) ==
  IF s = <<>> THEN s
  ELSE IF s[Len(s)] \in WhiteSpace THEN TrimRight(SubSeq(s, 1, Len(s) - 1))
  ELSE s

\* strings.TrimSpace
TrimSpace(s) == TrimRight(TrimLeft(s))

\* strings.HasPrefix
HasPrefix(s, p) == Len(p) <= Len(s) /\ SubSeq(s, 1, Len(p)) = p

\* strings.HasSuffix
HasSuffix(s, p) ==
  Len(p) <= Len(s) /\ SubSeq(s, Len(s) - Len(p) + 1, Len(s)) = p

\* strings.Index: position (1-based) of the first occurrence of sep, 0 if none
Index(s, sep) ==
  LET hits == {i \in 1..(Len(s) - Len(sep) + 1) :
                 SubSeq(s, i, i + Len(sep) - 1) = sep}
  IN  IF hits = {} THEN 0 ELSE CHOOSE i \in hits : \A j \in hits : i <= j

\* strings.Contains
Contains(s, sub) == sub = <<>> \/ Index(s, sub) > 0

RECURSIVE SplitAt(_, _)
SplitAt(s, sep) ==
  LET i == Index(s, sep)
  IN  IF i = 0 THEN <<s>>
      ELSE <<SubSeq(s, 1, i - 1)>> \o SplitAt(SubSeq(s, i + Len(sep), Len(s)), sep)

\* strings.Split: an empty separator explodes the string into its characters
Split(s, sep) ==
  IF sep = <<>> THEN [i \in 1..Len(s) |-> <<s[i]>>] ELSE SplitAt(s, sep)

\* strings.SplitN(s, sep, 2) for a one-character separator
SplitN2(s, sep) ==
  LET i == Index(s, sep)
  IN  IF i = 0 THEN <<s>>
      ELSE <<SubSeq(s, 1, i - 1), SubSeq(s, i + Len(sep), Len(s))>>

RECURSIVE Join(_, _)
\* strings.Join
Join(ss, sep) ==
  IF ss = <<>> THEN <<>>
  ELSE IF Len(ss) = 1 THEN ss[1]
  ELSE ss[1] \o sep \o Join(Tail(ss), sep)

\* slices.Contains
SliceContains(ss, v) == \E i \in 1..Len(ss) : ss[i] = v

AllDigits(s) == \A i \in 1..Len(s) : s[i] \in Digits

RECURSIVE DecVal(_)
\* value of a non-empty string of decimal digits
DecVal(s) ==
  IF s = <<>> THEN 0
  ELSE 10 * DecVal(SubSeq(s, 1, Len(s) - 1)) + DigitVal[s[Len(s)]]

\* strconv.ParseInt(s, 10, 64): optional sign, then one or more digits.
\* The values of the model have at most six digits, so the 64-bit range error
\* of strconv is out of reach.
ParseInt(s) ==
  LET signed == s # <<>> /\ Head(s) \in {"+", "-"}
      body   == IF signed THEN Tail(s) ELSE s
  IN  IF body = <<>> \/ ~AllDigits(body)
      THEN [ok |-> FALSE, v |-> 0]
      ELSE [ok |-> TRUE,
            v  |-> IF signed /\ Head(s) = "-" THEN 0 - DecVal(body) ELSE DecVal(body)]

\* strconv.ParseUint(s, 10, 64): one or more digits, no sign
ParseUint(s) ==
  IF s = <<>> \/ ~AllDigits(s)
  THEN [ok |-> FALSE, v |-> 0]
  ELSE [ok |-> TRUE, v |-> DecVal(s)]

\* a float64: NaN, or the number n (the model's alphabet has no '.', 'e', 'x', 'p', '_', 'i')
NaN == [nan |-> TRUE, n |-> 0]
Num(n) == [nan |-> FALSE, n |-> n]

\* strconv.ParseFloat(s, 64) on the model's alphabet: "nan" in any letter case,
\* or an optionally signed string of digits
ParseFloat(s) ==
  IF ToLower(s) = <<"n", "a", "n">> THEN [ok |-> TRUE, v |-> NaN]
  ELSE LET r == ParseInt(s)
       IN  [ok |-> r.ok, v |-> Num(r.v)]

\* float64 comparison: every comparison with NaN is false
FloatLess(a, b) == ~a.nan /\ ~b.nan /\ a.n < b.n

\* ParseBool as it would be if every number but 0 stood for true
ParseBoolNonzero(s) ==
  IF s = <<>> THEN [ok |-> FALSE, v |-> FALSE]
  ELSE IF ParseInt(s).ok THEN [ok |-> TRUE, v |-> ParseInt(s).v # 0]
  ELSE IF s \in {<<"t">>, <<"T">>, <<"t", "r", "u", "e">>, <<"T", "R", "U", "E">>, <<"T", "r", "u", "e">>} THEN [ok |-> TRUE, v |-> TRUE]
  ELSE IF s \in {<<"f">>, <<"F">>, <<"f", "a", "l", "s", "e">>, <<"F", "A", "L", "S", "E">>, <<"F", "a", "l", "s", "e">>} THEN [ok |-> TRUE, v |-> FALSE]
  ELSE [ok |-> FALSE, v |-> FALSE]

\* ParseBool as it would be if it folded the letter case of its argument
ParseBoolFolded(s) ==
  IF ToLower(s) \in {<<"1">>, <<"t">>, <<"t", "r", "u", "e">>} THEN [ok |-> TRUE, v |-> TRUE]
  ELSE IF ToLower(s) \in {<<"0">>, <<"f">>, <<"f", "a", "l", "s", "e">>} THEN [ok |-> TRUE, v |-> FALSE]
  ELSE [ok |-> FALSE, v |-> FALSE]

\* strconv.ParseBool
ParseBool(s) ==
  IF s \in {<<"1">>, <<"t">>, <<"T">>, <<"t", "r", "u", "e">>,
            <<"T", "R", "U", "E">>, <<"T", "r", "u", "e">>}
  THEN [ok |-> TRUE, v |-> TRUE]
  ELSE IF s \in {<<"0">>, <<"f">>, <<"F">>, <<"f", "a", "l", "s", "e">>,
                 <<"F", "A", "L", "S", "E">>, <<"F", "a", "l", "s", "e">>}
  THEN [ok |-> TRUE, v |-> FALSE]
  ELSE [ok |-> FALSE, v |-> FALSE]

(***************************************************************************)
(* internal/topt: the recognised tag options                               *)
(***************************************************************************)

NAME == <<"n", "a", "m", "e">>
REQUIRED == <<"r", "e", "q", "u", "i", "r", "e", "d">>
DEFAULT == <<"d", "e", "f", "a", "u", "l", "t">>
NOTRIM == <<"n", "o", "t", "r", "i", "m">>
LOWER == <<"l", "o", "w", "e", "r">>
UPPER == <<"u", "p", "p", "e", "r">>
MIN == <<"m", "i", "n">>
MAX == <<"m", "a", "x">>
V_AWS_REGION == <<"v", "_", "a", "w", "s", "_", "r", "e", "g", "i", "o", "n">>
V_AWS_ACCOUNT_ID == <<"v", "_", "a", "w", "s", "_", "a", "c", "c", "o", "u", "n", "t", "_", "i", "d">>
V_AWS_ROLE_ARN == <<"v", "_", "a", "w", "s", "_", "r", "o", "l", "e", "_", "a", "r", "n">>
V_AWS_BUCKET_NAME == <<"v", "_", "a", "w", "s", "_", "b", "u", "c", "k", "e", "t", "_", "n", "a", "m", "e">>

DefaultTagOptionSeparator == <<",">>
DefaultSliceValueSeparator == <<"|">>

(***************************************************************************)
(* errors                                                                  *)
(***************************************************************************)

\* an error value: its kind and, for the missing-required error, the names it lists
Err(kind) == [kind |-> kind, names |-> <<>>]
Nil == Err("nil")

(***************************************************************************)
(* tag parsing and name resolution                                         *)
(***************************************************************************)

\* options[key] = value on a Go map
MapPut(m, k, v) == [x \in (DOMAIN m) \cup {k} |-> IF x = k THEN v ELSE m[x]]

\* options[key] on a Go map[string]string: the empty string for a missing key
MapGet(m, k) == IF k \in DOMAIN m THEN m[k] ELSE <<>>

EmptyMap == [x \in {} |-> <<>>]

RECURSIVE parsePartsFirstWins(_, _)
\* the loop of parseTag as it would be if a key were kept as first given, and the
\* value were trimmed like the key
parsePartsFirstWins(parts, options) ==
  IF parts = <<>> THEN options
  ELSE LET kv  == SplitN2(Head(parts), <<"=">>)
           key == TrimSpace(ToLower(kv[1]))
       IN  parsePartsFirstWins(
             Tail(parts),
             IF key \in DOMAIN options THEN options
             ELSE MapPut(options, key, IF Len(kv) = 2 THEN kv[2] ELSE <<>>))

RECURSIVE parseParts(_, _)
parseParts(parts, options) ==
  IF parts = <<>> THEN options
  ELSE LET kv  == SplitN2(Head(parts), <<"=">>)
           key == TrimSpace(ToLower(kv[1]))
       IN  parseParts(Tail(parts),
                      MapPut(options, key, IF Len(kv) = 2 THEN kv[2] ELSE <<>>))

parseTag(p, tag) == parseParts(Split(tag, p.TagOptionSeparator), EmptyMap)

RECURSIVE apKeepDuplicates(_, _, _)
\* the closure ap as it would be without the slices.Contains test
apKeepDuplicates(envNames, sl, prefix) ==
  IF sl = <<>> THEN envNames
  ELSE apKeepDuplicates(Append(envNames, prefix \o Head(sl)), Tail(sl), prefix)

RECURSIVE ap(_, _, _)
\* the closure ap of getEnvNames: append prefix + s unless already present
ap(envNames, sl, prefix) ==
  IF sl = <<>> THEN envNames
  ELSE LET v == prefix \o Head(sl)
       IN  ap(IF SliceContains(envNames, v) THEN envNames ELSE Append(envNames, v),
              Tail(sl), prefix)

getEnvNames(fieldName, tagOptions, p) ==
  LET name   == MapGet(tagOptions, NAME)
      listed == IF NAME \in DOMAIN tagOptions /\ name # <<>>
                THEN ap(<<>>, Split(name, p.SliceValueSeparator), p.NamePrefix)
                ELSE <<>>
  IN  ap(listed, <<fieldName, ToUpper(fieldName), ToLower(fieldName)>>, p.NamePrefix)

\* os.Getenv: the environment e maps the names that are set to their values,
\* and an unset name reads as ""
Getenv(e, name) == IF name \in DOMAIN e THEN e[name] ELSE <<>>

RECURSIVE getEnvValueFirstSet(_, _)
\* getEnvValue as it would be with os.LookupEnv: the first candidate that is set
\* wins, even when it is set to ""
getEnvValueFirstSet(e, envNames) ==
  IF envNames = <<>> THEN <<>>
  ELSE IF Head(envNames) \in DOMAIN e THEN e[Head(envNames)]
  ELSE getEnvValueFirstSet(e, Tail(envNames))

RECURSIVE getEnvValue(_, _)
getEnvValue(e, envNames) ==
  IF envNames = <<>> THEN <<>>
  ELSE LET val == Getenv(e, Head(envNames))
       IN  IF val # <<>> THEN val ELSE getEnvValue(e, Tail(envNames))

(***************************************************************************)
(* value coercion                                                          *)
(***************************************************************************)

SignedKinds == {"int", "int8", "int16", "int32", "int64"}
UnsignedKinds == {"uint", "uint8", "uint16", "uint32", "uint64"}
FloatKinds == {"float32", "float64"}

\* bit width of an integer kind (int and uint are 64 bits wide on the 64-bit platforms)
BitSize(kind) ==
  CASE kind \in {"int8", "uint8"} -> 8
    [] kind \in {"int16", "uint16"} -> 16
    [] kind \in {"int32", "uint32"} -> 32
    [] OTHER -> 64

RECURSIVE Pow2(_)
Pow2(n) == IF n = 0 THEN 1 ELSE 2 * Pow2(n - 1)

\* reflect.Value.SetInt: the int64 is converted to the field's width (two's complement).
\* The model's values stay below 2^31, so only 8 and 16 bits can wrap.
SetInt(kind, x) ==
  LET w == BitSize(kind)
  IN  IF w >= 32 THEN x
      ELSE ((x + Pow2(w - 1)) % Pow2(w)) - Pow2(w - 1)

\* reflect.Value.SetUint: the uint64 is converted to the field's width
SetUint(kind, x) ==
  LET w == BitSize(kind)
  IN  IF w >= 32 THEN x ELSE x % Pow2(w)

\* reflect.Value.SetFloat: float32(x) is exact for NaN and for the model's
\* integers, which stay below 2^24
SetFloat(kind, x) == x

\* compareNumeric: dyn is the dynamic type of val (int64, uint64 or float64)
compareNumeric(dyn, val, threshold) ==
  CASE dyn = "int64" ->
         IF FloatLess(Num(val), threshold) THEN -1
         ELSE IF FloatLess(threshold, Num(val)) THEN 1 ELSE 0
    [] dyn = "float64" ->
         IF FloatLess(val, threshold) THEN -1
         ELSE IF FloatLess(threshold, val) THEN 1 ELSE 0
    [] OTHER -> 0

\* the first of two errors in program order
firstError(a, b) == IF a # Nil THEN a ELSE b

\* the min block of checkMinMax as it would be if a bound that is no number were
\* passed over
checkMinLenient(dyn, val, minStr, min) ==
  IF ~min.ok THEN Nil
  ELSE IF compareNumeric(dyn, val, min.v) < 0 THEN Err("below_min")
  ELSE Nil

\* checkMinMax with the parsed "min" option at hand
checkMin(dyn, val, minStr, min) ==
  IF ~min.ok THEN Err("invalid_min")
  ELSE IF compareNumeric(dyn, val, min.v) < 0 THEN Err("below_min")
  ELSE Nil

\* checkMinMax with the parsed "max" option at hand
checkMax(dyn, val, maxStr, max) ==
  IF ~max.ok THEN Err("invalid_max")
  ELSE IF compareNumeric(dyn, val, max.v) > 0 THEN Err("above_max")
  ELSE Nil

checkMinMax(dyn, val, tagOptions) ==
  firstError(
    IF MIN \in DOMAIN tagOptions
    THEN checkMin(dyn, val, tagOptions[MIN], ParseFloat(tagOptions[MIN])) ELSE Nil,
    IF MAX \in DOMAIN tagOptions
    THEN checkMax(dyn, val, tagOptions[MAX], ParseFloat(tagOptions[MAX])) ELSE Nil)

\* the end of a numeric case of setReflectValue: r is what strconv returned, e what
\* checkMinMax returned, set the value the field's Set method stores
setNumeric(r, e, set, zero) ==
  IF ~r.ok THEN [err |-> Err("parse"), v |-> zero]
  ELSE IF e # Nil THEN [err |-> e, v |-> zero]
  ELSE [err |-> Nil, v |-> set]

\* the reflect.Int... case of setReflectValue
setSigned(kind, r, tagOptions) ==
  setNumeric(r, checkMinMax("int64", r.v, tagOptions), SetInt(kind, r.v), 0)

\* the reflect.Uint... case of setReflectValue
setUnsigned(kind, r, tagOptions) ==
  setNumeric(r, checkMinMax("uint64", r.v, tagOptions), SetUint(kind, r.v), 0)

\* the reflect.Float... case of setReflectValue
setFloating(kind, r, tagOptions) ==
  setNumeric(r, checkMinMax("float64", r.v, tagOptions), SetFloat(kind, r.v), Num(0))

\* the reflect.Bool case of setReflectValue
setBool(r) ==
  IF ~r.ok THEN [err |-> Err("parse"), v |-> FALSE] ELSE [err |-> Nil, v |-> r.v]

\* setReflectValue as it would be if an empty value left a number or a boolean at
\* its zero value
setReflectValueEmptyIsZero(val, kind, tagOptions) ==
  CASE kind = "string" -> [err |-> Nil, v |-> val]
    [] kind \in SignedKinds /\ val = <<>> -> [err |-> Nil, v |-> 0]
    [] kind \in UnsignedKinds /\ val = <<>> -> [err |-> Nil, v |-> 0]
    [] kind \in FloatKinds /\ val = <<>> -> [err |-> Nil, v |-> Num(0)]
    [] kind = "bool" /\ val = <<>> -> [err |-> Nil, v |-> FALSE]
    [] kind \in SignedKinds /\ val # <<>> -> setSigned(kind, ParseInt(val), tagOptions)
    [] kind \in UnsignedKinds /\ val # <<>> -> setUnsigned(kind, ParseUint(val), tagOptions)
    [] kind \in FloatKinds /\ val # <<>> -> setFloating(kind, ParseFloat(val), tagOptions)
    [] kind = "bool" /\ val # <<>> -> setBool(ParseBool(val))
    [] OTHER -> [err |-> Err("unsupported"), v |-> <<>>]

\* setReflectValue: the error, and the value the field or element is set to when
\* the error is nil
setReflectValue(val, kind, tagOptions) ==
  CASE kind = "string" -> [err |-> Nil, v |-> val]
    [] kind \in SignedKinds -> setSigned(kind, ParseInt(val), tagOptions)
    [] kind \in UnsignedKinds -> setUnsigned(kind, ParseUint(val), tagOptions)
    [] kind \in FloatKinds -> setFloating(kind, ParseFloat(val), tagOptions)
    [] kind = "bool" -> setBool(ParseBool(val))
    [] OTHER -> [err |-> Err("unsupported"), v |-> <<>>]

setValue(val, kind, tagOptions) == setReflectValue(val, kind, tagOptions)

setSliceValue(val, kind, tagOptions) == setReflectValue(val, kind, tagOptions)

(***************************************************************************)
(* list coercion                                                           *)
(***************************************************************************)

\* a slice value: the nil slice of a fresh struct, or a made slice with its elements
NilSlice == [nil |-> TRUE, elems |-> <<>>]
MakeSlice(elems) == [nil |-> FALSE, elems |-> elems]

\* the first loop as it would be without the test for empty items
filterValueKeepEmpty(val, notrim) ==
  IF notrim THEN <<val>> ELSE <<TrimSpace(val)>>

\* one pass of the first loop of handleSliceWithSeparator: what val appends
\* to filteredValues
filterValue(val, notrim) ==
  IF notrim THEN <<val>>
  ELSE IF TrimSpace(val) # <<>> THEN <<TrimSpace(val)>>
  ELSE <<>>

RECURSIVE filterValues(_, _)
\* the first loop of handleSliceWithSeparator
filterValues(values, notrim) ==
  IF values = <<>> THEN <<>>
  ELSE filterValue(Head(values), notrim) \o filterValues(Tail(values), notrim)

\* one pass of the second loop of handleSliceWithSeparator, for an element that
\* setSliceValue turned into r, followed by the passes that end in rest
setElement(r, rest) ==
  IF r.err # Nil THEN [err |-> r.err, elems |-> <<>>]
  ELSE IF rest.err # Nil THEN rest
  ELSE [err |-> Nil, elems |-> <<r.v>> \o rest.elems]

RECURSIVE setElements(_, _, _)
\* the second loop of handleSliceWithSeparator: stops at the first element in error
setElements(filteredValues, sliceType, tagOptions) ==
  IF filteredValues = <<>> THEN [err |-> Nil, elems |-> <<>>]
  ELSE setElement(setSliceValue(Head(filteredValues), sliceType, tagOptions),
                  setElements(Tail(filteredValues), sliceType, tagOptions))

\* the end of handleSliceWithSeparator, from the test of len(filteredValues) on:
\* r is what the second loop came to
newSlice(filteredValues, r) ==
  IF filteredValues = <<>> THEN [err |-> Nil, v |-> MakeSlice(<<>>)]
  ELSE IF r.err # Nil THEN [err |-> r.err, v |-> NilSlice]
  ELSE [err |-> Nil, v |-> MakeSlice(r.elems)]

\* handleSliceWithSeparator from the split on
splitSlice(sliceType, filteredValues, tagOptions) ==
  newSlice(filteredValues, setElements(filteredValues, sliceType, tagOptions))

\* handleSliceWithSeparator: the error, and the slice the field is set to when
\* the error is nil
handleSliceWithSeparator(sliceType, envVal, tagOptions, separator) ==
  IF envVal = <<>> THEN [err |-> Nil, v |-> MakeSlice(<<>>)]
  ELSE splitSlice(sliceType,
                  filterValues(Split(envVal, separator), NOTRIM \in DOMAIN tagOptions),
                  tagOptions)

(***************************************************************************)
(* domain validators                                                       *)
(***************************************************************************)

AllIn(s, chars) == \A i \in 1..Len(s) : s[i] \in chars

\* awsRegionRgx: ^[a-z]{2}-[a-z-]+-[0-9]+$
vAwsRegion(region) ==
  IF \E k \in 5..(Len(region) - 1) :
       /\ AllIn(SubSeq(region, 1, 2), LowerLetters)
       /\ region[3] = "-"
       /\ AllIn(SubSeq(region, 4, k - 1), LowerLetters \cup {"-"})
       /\ region[k] = "-"
       /\ AllIn(SubSeq(region, k + 1, Len(region)), Digits)
  THEN Nil ELSE Err("v_aws_region")

\* awsAccountIdRgx: ^\d{12}$
vAwsAccountID(id) ==
  IF Len(id) = 12 /\ AllDigits(id) THEN Nil ELSE Err("v_aws_account_id")

\* awsBucketNameRgx ^[a-z0-9.-]{3,63}$, then the prefix, suffix and ".." checks
vAwsBucketName(name) ==
  IF /\ Len(name) >= 3
     /\ Len(name) <= 63
     /\ AllIn(name, LowerLetters \cup Digits \cup {".", "-"})
     /\ ~HasPrefix(name, <<".">>)
     /\ ~HasPrefix(name, <<"-">>)
     /\ ~HasSuffix(name, <<".">>)
     /\ ~HasSuffix(name, <<"-">>)
     /\ ~Contains(name, <<".", ".">>)
  THEN Nil ELSE Err("v_aws_bucket_name")

ArnPrefix == <<"a", "r", "n", ":", "a", "w", "s", ":", "i", "a", "m", ":", ":">>
RolePart == <<":", "r", "o", "l", "e", "/">>

\* awsRoleArnRgx: ^arn:aws:iam::\d{12}:role\/[a-zA-Z_+=,.@\-]{1,64}$
vAwsRoleArn(arn) ==
  LET n    == Len(ArnPrefix)
      name == SubSeq(arn, n + 12 + Len(RolePart) + 1, Len(arn))
  IN  IF /\ Len(arn) >= n + 12 + Len(RolePart) + 1
         /\ SubSeq(arn, 1, n) = ArnPrefix
         /\ AllDigits(SubSeq(arn, n + 1, n + 12))
         /\ SubSeq(arn, n + 13, n + 12 + Len(RolePart)) = RolePart
         /\ Len(name) <= 64
         /\ AllIn(name, LowerLetters \cup UpperLetters
                          \cup {"_", "+", "=", ",", ".", "@", "-"})
      THEN Nil ELSE Err("v_aws_role_arn")

\* the keys of awsValidationMap
AwsTags == {V_AWS_REGION, V_AWS_ACCOUNT_ID, V_AWS_BUCKET_NAME, V_AWS_ROLE_ARN}

\* awsValidationMap[tag](envVal)
awsValidationMap(tag, envVal) ==
  CASE tag = V_AWS_REGION -> vAwsRegion(envVal)
    [] tag = V_AWS_ACCOUNT_ID -> vAwsAccountID(envVal)
    [] tag = V_AWS_BUCKET_NAME -> vAwsBucketName(envVal)
    [] tag = V_AWS_ROLE_ARN -> vAwsRoleArn(envVal)

\* checkForAwsValidation as it would be without the early return for an empty
\* value of a field that is not required
checkForAwsValidationNoExemption(fieldName, envVal, tagOptions) ==
  LET present == {tag \in AwsTags : tag \in DOMAIN tagOptions}
  IN  IF Cardinality(present) > 1 THEN Err("multiple_v_aws")
      ELSE IF present # {} THEN awsValidationMap(CHOOSE tag \in present : TRUE, envVal)
      ELSE Nil

\* checkForAwsValidation: whatever order the map is ranged over, two options
\* present end in the exclusivity error
checkForAwsValidation(fieldName, envVal, tagOptions) ==
  LET present == {tag \in AwsTags : tag \in DOMAIN tagOptions}
  IN  IF REQUIRED \notin DOMAIN tagOptions /\ envVal = <<>> THEN Nil
      ELSE IF Cardinality(present) > 1 THEN Err("multiple_v_aws")
      ELSE IF present # {} THEN awsValidationMap(CHOOSE tag \in present : TRUE, envVal)
      ELSE Nil

(***************************************************************************)
(* struct types handed to Unmarshal                                        *)
(***************************************************************************)

\* a struct field as reflect presents it: its name, kind, element kind (slices),
\* struct type (nested structs) and its `env` tag, if it has one
Field(name, kind, tag) ==
  [Name |-> name, Kind |-> kind, Elem |-> "", Type |-> "", HasTag |-> TRUE, Tag |-> tag]
SliceField(name, elem, tag) ==
  [Name |-> name, Kind |-> "slice", Elem |-> elem, Type |-> "", HasTag |-> TRUE, Tag |-> tag]
PlainField(name, kind) ==
  [Name |-> name, Kind |-> kind, Elem |-> "", Type |-> "", HasTag |-> FALSE, Tag |-> <<>>]
StructField(name, type) ==
  [Name |-> name, Kind |-> "struct", Elem |-> "", Type |-> type, HasTag |-> FALSE, Tag |-> <<>>]
TaggedStructField(name, type, tag) ==
  [Name |-> name, Kind |-> "struct", Elem |-> "", Type |-> type, HasTag |-> TRUE, Tag |-> tag]

\* the struct types of the model, after the Config types of env_test.go
StructTypes ==
  [Fallback |->
     <<Field(<<"A", "b">>, "string", <<"n", "a", "m", "e", "=", "A", "|", "B">>),
       Field(<<"A", "B">>, "string", <<"n", "a", "m", "e", "=", "A", "B", "|", "A">>)>>,
   Defaults |->
     <<Field(<<"P", "o", "r", "t">>, "int", <<"d", "e", "f", "a", "u", "l", "t", "=", "8", "0", "8", "0">>),
       Field(<<"H", "o", "s", "t">>, "string", <<"u", "p", "p", "e", "r", ",", "d", "e", "f", "a", "u", "l", "t", "=", " ", "D", "v", " ">>),
       Field(<<"R", "a", "w">>, "string", <<"n", "a", "m", "e", "=", "H", "O", "S", "T", ",", "n", "o", "t", "r", "i", "m", ",", "d", "e", "f", "a", "u", "l", "t", "=", "d">>),
       SliceField(<<"H", "o", "s", "t", "s">>, "string", <<"n", "a", "m", "e", "=", "H", "O", "S", "T", ",", "d", "e", "f", "a", "u", "l", "t", "=", "a", "|", "b">>)>>,
   Required |->
     <<Field(<<"O", "p", "t">>, "string", <<"r", "e", "q", "u", "i", "r", "e", "d", ",", "d", "e", "f", "a", "u", "l", "t", "=", "d">>),
       Field(<<"K", "e", "y">>, "string", <<"r", "e", "q", "u", "i", "r", "e", "d", ",", "n", "o", "t", "r", "i", "m">>),
       Field(<<"M", "o", "d", "e">>, "string", <<"r", "e", "q", "u", "i", "r", "e", "d">>)>>,
   Lists |->
     <<SliceField(<<"H", "o", "s", "t", "s">>, "string", <<"n", "a", "m", "e", "=", "H">>),
       SliceField(<<"I", "d", "s">>, "int", <<"n", "a", "m", "e", "=", "I">>)>>,
   Database |->
     <<Field(<<"H", "o", "s", "t">>, "string", <<"n", "a", "m", "e", "=", "H">>),
       Field(<<"P", "o", "r", "t">>, "int", <<"n", "a", "m", "e", "=", "N">>),
       PlainField(<<"N", "o", "t", "e">>, "string"),
       Field(<<"s", "e", "c", "r", "e", "t">>, "string", <<"n", "a", "m", "e", "=", "H">>)>>,
   Outer |->
     <<Field(<<"H", "o", "s", "t">>, "string", <<"n", "a", "m", "e", "=", "H">>),
       PlainField(<<"P", "l", "a", "i", "n">>, "string"),
       Field(<<"h", "i", "d", "d", "e", "n">>, "int", <<"n", "a", "m", "e", "=", "N">>),
       TaggedStructField(<<"D", "b">>, "Database", <<"n", "a", "m", "e", "=", "H", ",", "r", "e", "q", "u", "i", "r", "e", "d">>),
       StructField(<<"p", "r", "i", "v">>, "Database"),
       Field(<<"M", "o", "d", "e">>, "string", <<"n", "a", "m", "e", "=", "R", ",", "r", "e", "q", "u", "i", "r", "e", "d">>),
       StructField(<<"R", "e", "p", "l", "i", "c", "a">>, "Database")>>,
   Aws |->
     <<Field(<<"B", "u", "c", "k", "e", "t">>, "string", <<"n", "a", "m", "e", "=", "B", ",", "v", "_", "a", "w", "s", "_", "b", "u", "c", "k", "e", "t", "_", "n", "a", "m", "e">>),
       Field(<<"B", "o", "t", "h">>, "string", <<"n", "a", "m", "e", "=", "T", ",", "v", "_", "a", "w", "s", "_", "r", "e", "g", "i", "o", "n", ",", "v", "_", "a", "w", "s", "_", "b", "u", "c", "k", "e", "t", "_", "n", "a", "m", "e">>)>>,
   Role |->
     <<Field(<<"A", "r", "n">>, "string", <<"n", "a", "m", "e", "=", "R", ",", "v", "_", "a", "w", "s", "_", "r", "o", "l", "e", "_", "a", "r", "n">>)>>,
   Bools |->
     <<Field(<<"D", "e", "b", "u", "g">>, "bool", <<"n", "a", "m", "e", "=", "D">>),
       SliceField(<<"F", "l", "a", "g", "s">>, "bool", <<"n", "a", "m", "e", "=", "F">>)>>,
   Case |->
     <<Field(<<"L", "o">>, "string", <<"n", "a", "m", "e", "=", "S", ",", "l", "o", "w", "e", "r">>),
       Field(<<"U", "p">>, "string", <<"n", "a", "m", "e", "=", "S", ",", "u", "p", "p", "e", "r">>),
       Field(<<"L", "o", "U", "p">>, "string", <<"n", "a", "m", "e", "=", "S", ",", "l", "o", "w", "e", "r", ",", "u", "p", "p", "e", "r">>),
       Field(<<"U", "p", "L", "o">>, "string", <<"n", "a", "m", "e", "=", "S", ",", "u", "p", "p", "e", "r", ",", "l", "o", "w", "e", "r">>),
       SliceField(<<"T", "a", "g", "s">>, "string", <<"n", "a", "m", "e", "=", "L", ",", "u", "p", "p", "e", "r", ",", "l", "o", "w", "e", "r">>)>>,
   RawLists |->
     <<SliceField(<<"H", "o", "s", "t", "s">>, "string", <<"n", "a", "m", "e", "=", "H", ",", "n", "o", "t", "r", "i", "m">>),
       SliceField(<<"I", "d", "s">>, "int", <<"n", "a", "m", "e", "=", "I", ",", "n", "o", "t", "r", "i", "m">>)>>,
   Trim |->
     <<Field(<<"H", "o", "s", "t">>, "string", <<"n", "a", "m", "e", "=", "H">>),
       Field(<<"R", "a", "w">>, "string", <<"n", "a", "m", "e", "=", "H", ",", "n", "o", "t", "r", "i", "m">>)>>,
   Tags |->
     <<Field(<<"O", "d", "d">>, "string", <<" ", "D", "e", "f", "a", "u", "l", "t", " ", "=", "x", ",", " ", "D", "E", "F", "A", "U", "L", "T", " ", "=", " ", "a", "=", "b", " ", ",", "N", "a", "m", "e", "=", "T", ",", "r", "e", "q", "u", "i", "r", "e", "d">>),
       Field(<<"B", "a", "r", "e">>, "string", <<>>)>>,
   BadMin |->
     <<SliceField(<<"I", "d", "s">>, "uint", <<"n", "a", "m", "e", "=", "L", ",", "m", "a", "x", "=", "x">>),
       Field(<<"N">>, "int", <<"n", "a", "m", "e", "=", "V", ",", "m", "i", "n">>)>>,
   BadFloat |->
     <<Field(<<"F">>, "float64", <<"n", "a", "m", "e", "=", "V", ",", "m", "a", "x", "=", "x">>)>>,
   BadUint |->
     <<Field(<<"U">>, "uint", <<"n", "a", "m", "e", "=", "V", ",", "m", "i", "n", "=", "1", ",", "m", "a", "x", "=">>)>>,
   MinBad |->
     <<Field(<<"N">>, "int", <<"n", "a", "m", "e", "=", "V", ",", "m", "i", "n", "=", "5", ",", "m", "a", "x", "=", "x">>)>>,
   SliceAws |->
     <<SliceField(<<"R", "e", "g", "i", "o", "n", "s">>, "string", <<"n", "a", "m", "e", "=", "L", ",", "r", "e", "q", "u", "i", "r", "e", "d", ",", "v", "_", "a", "w", "s", "_", "r", "e", "g", "i", "o", "n", ",", "v", "_", "a", "w", "s", "_", "b", "u", "c", "k", "e", "t", "_", "n", "a", "m", "e">>),
       SliceField(<<"I", "d", "s">>, "int", <<"n", "a", "m", "e", "=", "I", ",", "v", "_", "a", "w", "s", "_", "a", "c", "c", "o", "u", "n", "t", "_", "i", "d">>)>>,
   Region |->
     <<Field(<<"D", "e", "f">>, "string", <<"n", "a", "m", "e", "=", "D", ",", "l", "o", "w", "e", "r", ",", "v", "_", "a", "w", "s", "_", "r", "e", "g", "i", "o", "n", ",", "d", "e", "f", "a", "u", "l", "t", "=", "U", "S", "-", "E", "A", "S", "T", "-", "1">>),
       Field(<<"L", "o">>, "string", <<"n", "a", "m", "e", "=", "G", ",", "l", "o", "w", "e", "r", ",", "v", "_", "a", "w", "s", "_", "r", "e", "g", "i", "o", "n">>),
       Field(<<"R", "e", "q">>, "string", <<"n", "a", "m", "e", "=", "Q", ",", "r", "e", "q", "u", "i", "r", "e", "d", ",", "v", "_", "a", "w", "s", "_", "r", "e", "g", "i", "o", "n">>),
       Field(<<"U", "p">>, "string", <<"n", "a", "m", "e", "=", "G", ",", "u", "p", "p", "e", "r", ",", "v", "_", "a", "w", "s", "_", "r", "e", "g", "i", "o", "n">>)>>,
   RangeInt |->
     <<Field(<<"P", "o", "r", "t">>, "int", <<"m", "i", "n", "=", "8", "0", "0", "0", ",", "m", "a", "x", "=", "9", "0", "0", "0">>)>>,
   RangeFloat |->
     <<Field(<<"R", "a", "t", "e">>, "float64", <<"m", "i", "n", "=", "1", ",", "m", "a", "x", "=", "5">>)>>,
   RangeUint |->
     <<Field(<<"P", "o", "r", "t">>, "uint", <<"m", "i", "n", "=", "1", "0", "2", "4", ",", "m", "a", "x", "=", "6", "5", "5", "3", "5">>)>>,
   Narrow |->
     <<SliceField(<<"I", "d", "s">>, "uint16", <<"n", "a", "m", "e", "=", "V">>),
       Field(<<"S", "m", "a", "l", "l">>, "int8", <<"n", "a", "m", "e", "=", "V">>)>>]

NumField(t) == Len(StructTypes[t])

\* CanSet as it would be if unexported fields could be set
CanSetAny(f) == f.Name # <<>>

\* reflect.Value.CanSet for a field of an addressable struct: the field is exported,
\* that is, its name starts with an upper-case letter
CanSet(f) == f.Name # <<>> /\ Head(f.Name) \in UpperLetters

RECURSIVE LeafPaths(_, _)
\* the fields that hold a value (the non-struct fields at any depth), each as the
\* path of field indices from the root, in declaration order, depth first
LeafPaths(t, base) ==
  LET RECURSIVE from(_)
      from(i) ==
        IF i > NumField(t) THEN <<>>
        ELSE LET f == StructTypes[t][i]
             IN  (IF f.Kind = "struct" THEN LeafPaths(f.Type, base \o <<i>>)
                  ELSE <<base \o <<i>>>>) \o from(i + 1)
  IN  from(1)

RECURSIVE FieldAt(_, _)
\* the field a path leads to
FieldAt(t, path) ==
  LET f == StructTypes[t][Head(path)]
  IN  IF Len(path) = 1 THEN f ELSE FieldAt(f.Type, Tail(path))

\* the zero value of a field's type
ZeroValue(f) ==
  CASE f.Kind = "string" -> <<>>
    [] f.Kind \in SignedKinds \cup UnsignedKinds -> 0
    [] f.Kind \in FloatKinds -> Num(0)
    [] f.Kind = "bool" -> FALSE
    [] OTHER -> NilSlice

\* some earlier content of a field
PriorValue(f) ==
  CASE f.Kind = "string" -> <<"o", "l", "d">>
    [] f.Kind \in SignedKinds \cup UnsignedKinds -> 1
    [] f.Kind \in FloatKinds -> Num(1)
    [] f.Kind = "bool" -> TRUE
    [] f.Kind = "slice" /\ f.Elem = "string" -> MakeSlice(<<<<"o">>>>)
    [] f.Kind = "slice" /\ f.Elem \in SignedKinds \cup UnsignedKinds -> MakeSlice(<<1>>)
    [] f.Kind = "slice" /\ f.Elem = "bool" -> MakeSlice(<<TRUE>>)
    [] OTHER -> MakeSlice(<<>>)

(***************************************************************************)
(* the program: a parser, the process environment, a struct, Unmarshal     *)
(***************************************************************************)

\* what a run works on: the struct type handed to Unmarshal, the environment
\* variables and values the surrounding process sets, the separators and
\* prefixes the caller configures, and whether the struct is fresh
Scenario(root, keys, vals, tagSeps, sliceSeps, prefixes, prior) ==
  [root |-> root, keys |-> keys, vals |-> vals, tagSeps |-> tagSeps,
   sliceSeps |-> sliceSeps, prefixes |-> prefixes, prior |-> prior]

DefaultSeps == {DefaultTagOptionSeparator, DefaultSliceValueSeparator}

Scenarios ==
  {Scenario("Fallback",
            {<<"A">>, <<"B">>, <<"a", "b">>},
            {<<>>, <<"x">>, <<"y">>},
            DefaultSeps, DefaultSeps, {<<>>}, "zero"),
   Scenario("Fallback",
            {<<"P", "_", "A">>, <<"A">>, <<"P", "_", "a", "b">>},
            {<<>>, <<"x">>, <<"y">>},
            DefaultSeps, DefaultSeps, {<<>>, <<"P", "_">>}, "zero"),
   Scenario("Defaults",
            {<<"P", "O", "R", "T">>, <<"H", "O", "S", "T">>},
            {<<>>, <<" ">>, <<"7">>, <<" ", "x", " ">>},
            DefaultSeps, DefaultSeps, {<<>>}, "zero"),
   Scenario("Required",
            {<<"O", "P", "T">>, <<"K", "E", "Y">>, <<"M", "O", "D", "E">>},
            {<<>>, <<" ">>, <<"x">>},
            DefaultSeps, DefaultSeps, {<<>>}, "zero"),
   Scenario("Lists",
            {<<"H">>, <<"I">>},
            {<<"|", "|", "|">>, <<" ", "a", " ", "|", " ", "|", "b">>, <<"1", "|", " ", "2", "|">>, <<"3", ";", "4">>},
            DefaultSeps, DefaultSeps \cup {<<";">>}, {<<>>}, "zero"),
   Scenario("Outer",
            {<<"H">>, <<"N">>, <<"R">>},
            {<<"7">>, <<"x">>},
            DefaultSeps, DefaultSeps, {<<>>}, "zero"),
   Scenario("Outer",
            {<<"H">>, <<"N">>, <<"R">>},
            {<<"7">>, <<"x">>},
            DefaultSeps, DefaultSeps, {<<>>}, "dirty"),
   Scenario("Aws",
            {<<"B">>, <<"T">>},
            {<<>>, <<"a", "b", "c">>, <<"-", "a">>},
            DefaultSeps, DefaultSeps, {<<>>}, "dirty"),
   Scenario("Role",
            {<<"R">>},
            {<<>>, <<"a", "r", "n", ":", "a", "w", "s", ":", "i", "a", "m", ":", ":", "1", "2", "3", "4", "5", "6", "7", "8", "9", "0", "1", "2", ":", "r", "o", "l", "e", "/", "R", "o", "l", "e", "1">>,
             <<"a", "r", "n", ":", "a", "w", "s", ":", "i", "a", "m", ":", ":", "1", "2", "3", "4", "5", "6", "7", "8", "9", "0", "1", "2", ":", "r", "o", "l", "e", "/", "M", "y", "_", "R", "o", "l", "e">>,
             <<"a", "r", "n", ":", "a", "w", "s", ":", "i", "a", "m", ":", ":", "1", "2", "3", "4", "5", "6", "7", "8", "9", "0", "1", "2", ":", "r", "o", "l", "e", "/">>,
             <<"a", "r", "n", ":", "a", "w", "s", ":", "i", "a", "m", ":", ":", "1", "2", "3", "4", "5", "6", "7", "8", "9", "0", "1", ":", "r", "o", "l", "e", "/", "M", "y", "R", "o", "l", "e">>,
             <<"a", "r", "n", ":", "a", "w", "s", ":", "i", "a", "m", ":", ":", "1", "2", "3", "4", "5", "6", "7", "8", "9", "0", "1", "2", ":", "r", "o", "l", "e", "/", "M", "y", " ", "R", "o", "l", "e">>},
            DefaultSeps, DefaultSeps, {<<>>}, "dirty"),
   Scenario("Bools",
            {<<"D">>, <<"F">>},
            {<<"1">>, <<"0">>, <<"t", "r", "u", "e">>, <<"T", "R", "U", "E">>, <<"F", "a", "l", "s", "e">>, <<"t">>, <<"t", "R", "u", "E">>, <<"f", "A", "L", "S", "E">>, <<"2">>, <<"-", "1">>,
             <<"y", "e", "s">>, <<"T", "r", "u", "e", "|", "0">>, <<"1", "|", "x">>},
            DefaultSeps, DefaultSeps, {<<>>}, "dirty"),
   Scenario("Case",
            {<<"S">>, <<"L">>},
            {<<"A", "b">>, <<"a", "B", "|", "C", "d">>},
            DefaultSeps, DefaultSeps, {<<>>}, "zero"),
   Scenario("RawLists",
            {<<"H">>, <<"I">>},
            {<<"a", "|", "|", "b">>, <<"|", "|", "|">>, <<"1", "|", " ", "2">>, <<"1", "|", "2">>},
            DefaultSeps, DefaultSeps, {<<>>}, "zero"),
   Scenario("Trim",
            {<<"H">>},
            {<<>>, <<" ">>, <<"x">>, <<" ", "x", " ">>},
            DefaultSeps, DefaultSeps, {<<>>}, "zero"),
   Scenario("Tags",
            {<<"T">>, <<"B", "A", "R", "E">>},
            {<<"v">>},
            {<<",">>, <<";">>}, DefaultSeps, {<<>>}, "dirty"),
   Scenario("BadMin",
            {<<"L">>, <<"V">>},
            {<<"3">>, <<"x">>, <<"3", "|", "7">>},
            DefaultSeps, DefaultSeps, {<<>>}, "dirty"),
   Scenario("BadFloat",
            {<<"V">>},
            {<<"3">>, <<"x">>},
            DefaultSeps, DefaultSeps, {<<>>}, "dirty"),
   Scenario("BadUint",
            {<<"V">>},
            {<<"3">>, <<"x">>},
            DefaultSeps, DefaultSeps, {<<>>}, "dirty"),
   Scenario("MinBad",
            {<<"V">>},
            {<<"3">>, <<"7">>, <<"x">>},
            DefaultSeps, DefaultSeps, {<<>>}, "dirty"),
   Scenario("SliceAws",
            {<<"L">>, <<"I">>},
            {<<"a", "|", "b">>, <<"1", "|", "2">>},
            DefaultSeps, DefaultSeps, {<<>>}, "zero"),
   Scenario("Region",
            {<<"D">>, <<"G">>, <<"Q">>},
            {<<"U", "S", "-", "E", "A", "S", "T", "-", "1">>, <<"u", "s", "-", "e", "a", "s", "t", "-", "1">>, <<"x">>, <<" ">>},
            DefaultSeps, DefaultSeps, {<<>>}, "dirty"),
   Scenario("RangeInt",
            {<<"P", "O", "R", "T">>},
            {<<"7", "9", "9", "9">>, <<"8", "0", "0", "0">>, <<"8", "5", "0", "0">>, <<"9", "0", "0", "0">>, <<"9", "0", "0", "1">>},
            DefaultSeps, DefaultSeps, {<<>>}, "zero"),
   Scenario("RangeFloat",
            {<<"R", "A", "T", "E">>},
            {<<"0">>, <<"1">>, <<"3">>, <<"5">>, <<"6">>, <<"N", "a", "N">>},
            DefaultSeps, DefaultSeps, {<<>>}, "zero"),
   Scenario("RangeUint",
            {<<"P", "O", "R", "T">>},
            {<<"5">>, <<"8", "0", "8", "0">>, <<"7", "0", "0", "0", "0">>},
            DefaultSeps, DefaultSeps, {<<>>}, "zero"),
   Scenario("Narrow",
            {<<"V">>},
            {<<"1", "0", "0">>, <<"3", "0", "0">>, <<"7", "0", "0", "0", "0">>, <<"-", "1">>},
            DefaultSeps, DefaultSeps, {<<>>}, "zero")}

VARIABLES
  scen,      \* the scenario of this run
  parser,    \* the Parser: TagOptionSeparator, SliceValueSeparator, NamePrefix
  panicked,  \* a separator setter has panicked
  environ,   \* the process environment: the variables that are set
  cfg,       \* the struct handed to Unmarshal: leaf path -> value
  stack,     \* the active Unmarshal calls: struct type t, loop index i, path base
  result,    \* what the last top-level Unmarshal returned
  last,      \* the locals of the last loop iteration that reached the tag
  cfg0,      \* the struct as it was when the last top-level Unmarshal was called
  result0    \* what the call before the last returned, nothing having changed since

vars == <<scen, parser, panicked, environ, cfg, stack, result, last, cfg0, result0>>

\* no call has returned yet
NoResult == Err("none")

\* no loop iteration has reached a tag yet
NoStep ==
  [path |-> <<>>, names |-> <<>>, raw |-> <<>>, val |-> <<>>, cased |-> <<>>,
   err |-> NoResult]

\* NewParser
NewParser ==
  [TagOptionSeparator |-> DefaultTagOptionSeparator,
   SliceValueSeparator |-> DefaultSliceValueSeparator,
   NamePrefix |-> <<>>]

Init ==
  /\ scen \in Scenarios
  /\ parser = NewParser
  /\ panicked = FALSE
  /\ environ = [k \in {} |-> <<>>]
  /\ cfg = [path \in {LeafPaths(scen.root, <<>>)[n] :
                        n \in 1..Len(LeafPaths(scen.root, <<>>))} |->
              IF scen.prior = "dirty" THEN PriorValue(FieldAt(scen.root, path))
              ELSE ZeroValue(FieldAt(scen.root, path))]
  /\ stack = <<>>
  /\ result = NoResult
  /\ last = NoStep
  /\ cfg0 = cfg
  /\ result0 = NoResult

\* no Unmarshal call is running and the process is alive
Idle == stack = <<>> /\ ~panicked

\* what is remembered of the last Unmarshal call (its result, the locals of its
\* last iteration, the struct it was handed) is dropped when the program goes on
\* to change the environment or the parser
Forget == result' = NoResult /\ last' = NoStep /\ cfg0' = cfg /\ result0' = NoResult

\* os.Setenv(key, val)
Setenv(key, val) ==
  /\ Idle
  /\ environ' = [k \in (DOMAIN environ) \cup {key} |-> IF k = key THEN val ELSE environ[k]]
  /\ Forget
  /\ UNCHANGED <<scen, parser, panicked, cfg, stack>>

\* os.Unsetenv(key)
Unsetenv(key) ==
  /\ Idle
  /\ key \in DOMAIN environ
  /\ environ' = [k \in (DOMAIN environ) \ {key} |-> environ[k]]
  /\ Forget
  /\ UNCHANGED <<scen, parser, panicked, cfg, stack>>

\* WithTagOptionSeparator as it would be without the comparison with the slice
\* value separator
WithTagOptionSeparatorUnchecked(separator) ==
  /\ Idle
  /\ parser' = [parser EXCEPT !.TagOptionSeparator = separator]
  /\ Forget
  /\ UNCHANGED <<scen, panicked, environ, cfg, stack>>

WithTagOptionSeparator(separator) ==
  /\ Idle
  /\ IF separator = parser.SliceValueSeparator
     THEN panicked' = TRUE /\ UNCHANGED parser
     ELSE /\ parser' = [parser EXCEPT !.TagOptionSeparator = separator]
          /\ UNCHANGED panicked
  /\ Forget
  /\ UNCHANGED <<scen, environ, cfg, stack>>

\* WithSliceValueSeparator as it would be without the comparison with the tag
\* option separator
WithSliceValueSeparatorUnchecked(separator) ==
  /\ Idle
  /\ parser' = [parser EXCEPT !.SliceValueSeparator = separator]
  /\ Forget
  /\ UNCHANGED <<scen, panicked, environ, cfg, stack>>

WithSliceValueSeparator(separator) ==
  /\ Idle
  /\ IF separator = parser.TagOptionSeparator
     THEN panicked' = TRUE /\ UNCHANGED parser
     ELSE /\ parser' = [parser EXCEPT !.SliceValueSeparator = separator]
          /\ UNCHANGED panicked
  /\ Forget
  /\ UNCHANGED <<scen, environ, cfg, stack>>

WithNamePrefix(prefix) ==
  /\ Idle
  /\ parser' = [parser EXCEPT !.NamePrefix = prefix]
  /\ Forget
  /\ UNCHANGED <<scen, panicked, environ, cfg, stack>>

(***************************************************************************)
(* Unmarshal                                                               *)
(***************************************************************************)

\* the trim step as it would be if notrim were not looked at
trimValueAlways(raw, tagOptions) == TrimSpace(raw)

\* the trim step of Unmarshal's loop
trimValue(raw, tagOptions) ==
  IF NOTRIM \in DOMAIN tagOptions THEN raw ELSE TrimSpace(raw)

\* the default step as it would be if the default were trimmed like a value
defaultValueTrimmed(envVal, tagOptions) ==
  IF envVal = <<>> /\ MapGet(tagOptions, DEFAULT) # <<>>
  THEN TrimSpace(MapGet(tagOptions, DEFAULT)) ELSE envVal

\* the default step of Unmarshal's loop
defaultValue(envVal, tagOptions) ==
  IF envVal = <<>> /\ MapGet(tagOptions, DEFAULT) # <<>>
  THEN MapGet(tagOptions, DEFAULT) ELSE envVal

\* the lower step of Unmarshal's loop
lowerValue(envVal, tagOptions) ==
  IF LOWER \in DOMAIN tagOptions THEN ToLower(envVal) ELSE envVal

\* the upper step of Unmarshal's loop
upperValue(envVal, tagOptions) ==
  IF UPPER \in DOMAIN tagOptions THEN ToUpper(envVal) ELSE envVal

\* what a loop iteration comes to: its locals, its error, and the value the field
\* is set to when the error is nil
outcome(locals, r) == [locals |-> locals, err |-> r.err, v |-> r.v]

\* the end of the loop body for a field that is no slice: aws is what
\* checkForAwsValidation returned, sv what setValue comes to
setScalar(locals, aws, sv) ==
  IF aws # Nil THEN [locals |-> locals, err |-> aws, v |-> <<>>]
  ELSE outcome(locals, sv)

\* the required check as it would be if made on the looked-up value, before
\* trimming and default substitution
missingRequiredRaw(tagOptions, locals) ==
  REQUIRED \in DOMAIN tagOptions /\ locals.raw = <<>>

\* the required check of Unmarshal's loop
missingRequired(tagOptions, locals) ==
  REQUIRED \in DOMAIN tagOptions /\ locals.val = <<>>

\* the loop body from the required check on as it would be if the aws validation
\* came before the slice branch
finishFieldValidatesSlices(f, p, tagOptions, locals) ==
  IF missingRequired(tagOptions, locals)
  THEN [locals |-> locals,
        err |-> [kind |-> "required",
                 names |-> Join(locals.names, p.SliceValueSeparator)],
        v |-> <<>>]
  ELSE setScalar(locals,
                 checkForAwsValidation(f.Name, locals.cased, tagOptions),
                 IF f.Kind = "slice"
                 THEN handleSliceWithSeparator(f.Elem, locals.cased, tagOptions,
                                               p.SliceValueSeparator)
                 ELSE setValue(locals.cased, f.Kind, tagOptions))

\* the loop body from the required check on as it would be if the aws validation
\* were handed the value as it was before the case steps
finishFieldValidatesUncased(f, p, tagOptions, locals) ==
  IF missingRequired(tagOptions, locals)
  THEN [locals |-> locals,
        err |-> [kind |-> "required",
                 names |-> Join(locals.names, p.SliceValueSeparator)],
        v |-> <<>>]
  ELSE IF f.Kind = "slice"
  THEN outcome(locals,
               handleSliceWithSeparator(f.Elem, locals.cased, tagOptions,
                                        p.SliceValueSeparator))
  ELSE setScalar(locals,
                 checkForAwsValidation(f.Name, locals.val, tagOptions),
                 setValue(locals.cased, f.Kind, tagOptions))

\* the loop body from the required check on as it would be if the required check
\* came after the aws validation
finishFieldRequiredLast(f, p, tagOptions, locals) ==
  IF f.Kind = "slice" /\ ~missingRequired(tagOptions, locals)
  THEN outcome(locals,
               handleSliceWithSeparator(f.Elem, locals.cased, tagOptions,
                                        p.SliceValueSeparator))
  ELSE IF f.Kind # "slice"
          /\ checkForAwsValidation(f.Name, locals.cased, tagOptions) # Nil
  THEN [locals |-> locals,
        err |-> checkForAwsValidation(f.Name, locals.cased, tagOptions),
        v |-> <<>>]
  ELSE IF missingRequired(tagOptions, locals)
  THEN [locals |-> locals,
        err |-> [kind |-> "required",
                 names |-> Join(locals.names, p.SliceValueSeparator)],
        v |-> <<>>]
  ELSE outcome(locals, setValue(locals.cased, f.Kind, tagOptions))

\* the loop body from the required check on
finishField(f, p, tagOptions, locals) ==
  IF missingRequired(tagOptions, locals)
  THEN [locals |-> locals,
        err |-> [kind |-> "required",
                 names |-> Join(locals.names, p.SliceValueSeparator)],
        v |-> <<>>]
  ELSE IF f.Kind = "slice"
  THEN outcome(locals,
               handleSliceWithSeparator(f.Elem, locals.cased, tagOptions,
                                        p.SliceValueSeparator))
  ELSE setScalar(locals,
                 checkForAwsValidation(f.Name, locals.cased, tagOptions),
                 setValue(locals.cased, f.Kind, tagOptions))

\* the loop body from the case steps on as it would be if upper-casing came
\* first and lower-casing second
caseFieldUpperFirst(f, p, tagOptions, envNames, raw, val) ==
  finishField(f, p, tagOptions,
              [names |-> envNames, raw |-> raw, val |-> val,
               cased |-> lowerValue(upperValue(val, tagOptions), tagOptions)])

\* the loop body once the value after the default step is known
caseField(f, p, tagOptions, envNames, raw, val) ==
  finishField(f, p, tagOptions,
              [names |-> envNames, raw |-> raw, val |-> val,
               cased |-> upperValue(lowerValue(val, tagOptions), tagOptions)])

\* the loop body once the looked-up value is known
valueField(f, p, tagOptions, envNames, raw) ==
  caseField(f, p, tagOptions, envNames, raw,
            defaultValue(trimValue(raw, tagOptions), tagOptions))

\* the loop body once the candidate names are known
lookupField(f, p, e, tagOptions, envNames) ==
  valueField(f, p, tagOptions, envNames, getEnvValue(e, envNames))

\* the loop body once the tag is parsed
namesField(f, p, e, tagOptions) ==
  lookupField(f, p, e, tagOptions, getEnvNames(f.Name, tagOptions, p))

\* the body of Unmarshal's loop from the tag lookup on, for an annotated field f
\* that is no struct: the locals it computes, the error, and the value v the
\* field is set to when the error is nil
resolveField(f, p, e) == namesField(f, p, e, parseTag(p, f.Tag))

Top == stack[Len(stack)]

\* the field the innermost running call is at
CurField == StructTypes[Top.t][Top.i]
CurPath == Top.base \o <<Top.i>>

InLoop == stack # <<>> /\ Top.i <= NumField(Top.t)

\* the innermost call moves on to its next field
Continue == [stack EXCEPT ![Len(stack)].i = @ + 1]

\* parser.Unmarshal(&cfg) is called
Unmarshal ==
  /\ Idle
  /\ stack' = <<[t |-> scen.root, i |-> 1, base |-> <<>>]>>
  /\ result' = NoResult
  /\ last' = NoStep
  /\ cfg0' = cfg
  /\ result0' = result
  /\ UNCHANGED <<scen, parser, panicked, environ, cfg>>

\* a loop iteration that ends in one of the two `continue`s before the tag is
\* parsed: the field cannot be set, or it is no struct and has no env tag
SkipField ==
  /\ InLoop
  /\ \/ ~CanSet(CurField)
     \/ CurField.Kind # "struct" /\ ~CurField.HasTag
  /\ stack' = Continue
  /\ UNCHANGED <<scen, parser, panicked, environ, cfg, result, last, cfg0, result0>>

\* the struct branch as it would be if, like any other field, a struct field
\* without env tag were passed over
NestedFieldTaggedOnly ==
  /\ InLoop
  /\ CanSet(CurField)
  /\ CurField.Kind = "struct"
  /\ IF CurField.HasTag
     THEN stack' = Append(stack, [t |-> CurField.Type, i |-> 1, base |-> CurPath])
     ELSE stack' = Continue
  /\ UNCHANGED <<scen, parser, panicked, environ, cfg, result, last, cfg0, result0>>

\* a loop iteration on a settable struct field: the recursive call starts
NestedField ==
  /\ InLoop
  /\ CanSet(CurField)
  /\ CurField.Kind = "struct"
  /\ stack' = Append(stack, [t |-> CurField.Type, i |-> 1, base |-> CurPath])
  /\ UNCHANGED <<scen, parser, panicked, environ, cfg, result, last, cfg0, result0>>

\* the end of a loop iteration as it would be if the struct branch dropped the
\* error of its recursive call: the nested call returns, its caller goes on
ResolvedNestedErrorDropped(r) ==
  /\ last' = [path |-> CurPath, names |-> r.locals.names, raw |-> r.locals.raw,
              val |-> r.locals.val, cased |-> r.locals.cased, err |-> r.err]
  /\ IF r.err # Nil /\ Len(stack) = 1
     THEN /\ stack' = <<>>
          /\ result' = r.err
          /\ UNCHANGED cfg
     ELSE IF r.err # Nil
     THEN /\ stack' = [SubSeq(stack, 1, Len(stack) - 1)
                         EXCEPT ![Len(stack) - 1].i = @ + 1]
          /\ UNCHANGED <<cfg, result>>
     ELSE /\ cfg' = [cfg EXCEPT ![CurPath] = r.v]
          /\ stack' = Continue
          /\ UNCHANGED result

\* the end of a loop iteration as it would be if a field that holds something
\* were not set again
ResolvedKeepsSet(r) ==
  /\ last' = [path |-> CurPath, names |-> r.locals.names, raw |-> r.locals.raw,
              val |-> r.locals.val, cased |-> r.locals.cased, err |-> r.err]
  /\ IF r.err # Nil
     THEN /\ stack' = <<>>
          /\ result' = r.err
          /\ UNCHANGED cfg
     ELSE /\ cfg' = [cfg EXCEPT ![CurPath] =
                       IF cfg[CurPath] = ZeroValue(CurField) THEN r.v ELSE cfg[CurPath]]
          /\ stack' = Continue
          /\ UNCHANGED result

\* the end of a loop iteration as it would be if a slice field were appended to
ResolvedAppends(r) ==
  /\ last' = [path |-> CurPath, names |-> r.locals.names, raw |-> r.locals.raw,
              val |-> r.locals.val, cased |-> r.locals.cased, err |-> r.err]
  /\ IF r.err # Nil
     THEN /\ stack' = <<>>
          /\ result' = r.err
          /\ UNCHANGED cfg
     ELSE /\ cfg' = [cfg EXCEPT ![CurPath] =
                       IF CurField.Kind = "slice"
                       THEN MakeSlice(cfg[CurPath].elems \o r.v.elems) ELSE r.v]
          /\ stack' = Continue
          /\ UNCHANGED result

\* the end of a loop iteration as it would be if the field were set before the
\* error is looked at
ResolvedAssignsOnError(r) ==
  /\ last' = [path |-> CurPath, names |-> r.locals.names, raw |-> r.locals.raw,
              val |-> r.locals.val, cased |-> r.locals.cased, err |-> r.err]
  /\ cfg' = [cfg EXCEPT ![CurPath] = IF r.err # Nil THEN ZeroValue(CurField) ELSE r.v]
  /\ IF r.err # Nil
     THEN /\ stack' = <<>>
          /\ result' = r.err
     ELSE /\ stack' = Continue
          /\ UNCHANGED result

\* the end of a loop iteration that came to r: the field is set and the loop goes
\* on, or the whole call returns the error (every enclosing call returns what its
\* recursive call returned)
Resolved(r) ==
  /\ last' = [path |-> CurPath, names |-> r.locals.names, raw |-> r.locals.raw,
              val |-> r.locals.val, cased |-> r.locals.cased, err |-> r.err]
  /\ IF r.err # Nil
     THEN /\ stack' = <<>>
          /\ result' = r.err
          /\ UNCHANGED cfg
     ELSE /\ cfg' = [cfg EXCEPT ![CurPath] = r.v]
          /\ stack' = Continue
          /\ UNCHANGED result

\* a loop iteration on a settable annotated field that is no struct
ResolveField ==
  /\ InLoop
  /\ CanSet(CurField)
  /\ CurField.Kind # "struct"
  /\ CurField.HasTag
  /\ Resolved(resolveField(CurField, parser, environ))
  /\ UNCHANGED <<scen, parser, panicked, environ, cfg0, result0>>

\* the loop of the innermost call is over: it returns nil, to its caller's loop
\* or, at the top level, to the program
Return ==
  /\ stack # <<>>
  /\ Top.i > NumField(Top.t)
  /\ IF Len(stack) = 1
     THEN stack' = <<>> /\ result' = Nil
     ELSE /\ stack' = [SubSeq(stack, 1, Len(stack) - 1)
                         EXCEPT ![Len(stack) - 1].i = @ + 1]
          /\ UNCHANGED result
  /\ UNCHANGED <<scen, parser, panicked, environ, cfg, last, cfg0, result0>>

Next ==
  \/ \E key \in scen.keys, val \in scen.vals : Setenv(key, val)
  \/ \E key \in scen.keys : Unsetenv(key)
  \/ \E separator \in scen.tagSeps : WithTagOptionSeparator(separator)
  \/ \E separator \in scen.sliceSeps : WithSliceValueSeparator(separator)
  \/ \E prefix \in scen.prefixes : WithNamePrefix(prefix)
  \/ Unmarshal
  \/ SkipField
  \/ NestedField
  \/ ResolveField
  \/ Return

Spec == Init /\ [][Next]_vars

(***************************************************************************)
(* Properties                                                              *)
(***************************************************************************)

\* a loop iteration has reached a tag; until the program changes the environment
\* or the parser, `last` holds its locals, and environ and parser are the ones
\* it ran with
Stepped == last # NoStep

\* the field and the parsed tag of the last iteration
LastField == FieldAt(scen.root, last.path)
LastOptions == parseTag(parser, LastField.Tag)

\* the candidate names of field f as the specification lists them: the entries
\* of `name` in listed order, the declared name, its upper-cased and its
\* lower-cased form, each behind the name prefix
ListedCandidates(f, options) ==
  LET listed == IF NAME \in DOMAIN options /\ options[NAME] # <<>>
                THEN Split(options[NAME], parser.SliceValueSeparator) ELSE <<>>
      all    == listed \o <<f.Name, ToUpper(f.Name), ToLower(f.Name)>>
  IN  [i \in 1..Len(all) |-> parser.NamePrefix \o all[i]]

\* the value of the first candidate that is set to a non-empty value, or ""
FirstNonEmpty(cands) ==
  LET hits == {i \in 1..Len(cands) :
                 cands[i] \in DOMAIN environ /\ environ[cands[i]] # <<>>}
  IN  IF hits = {} THEN <<>>
      ELSE environ[cands[CHOOSE i \in hits : \A j \in hits : i <= j]]

\* C1: the raw value of an annotated field is the environment value of the first
\* candidate name, in the order name entries, declared name, upper-cased name,
\* lower-cased name, whose value is non-empty; a candidate set to "" is passed
\* over like an unset one, and with no such candidate the raw value is "".
C1_FirstNonEmptyCandidate ==
  Stepped => last.raw = FirstNonEmpty(ListedCandidates(LastField, LastOptions))

\* C1 witness: the first listed name is set to "", the second is unset, and the
\* raw value comes from the lower-cased field name
C1_Witness ==
  /\ Stepped
  /\ scen.root = "Fallback"
  /\ last.path = <<1>>
  /\ parser.NamePrefix = <<>>
  /\ <<"A">> \in DOMAIN environ /\ environ[<<"A">>] = <<>>
  /\ <<"B">> \notin DOMAIN environ
  /\ <<"a", "b">> \in DOMAIN environ
  /\ last.raw = <<"x">>
  /\ environ[<<"a", "b">>] = <<"x">>

\* the value a candidate contributes under the field's trimming policy
Trimmed(options, v) == IF NOTRIM \in DOMAIN options THEN v ELSE TrimSpace(v)

\* lower-casing, then upper-casing, as the options ask
Cased(options, v) ==
  LET l == IF LOWER \in DOMAIN options THEN ToLower(v) ELSE v
  IN  IF UPPER \in DOMAIN options THEN ToUpper(l) ELSE l

\* no candidate name of the last field has a value that is non-empty under the
\* field's trimming policy
NoCandidateValue ==
  \A i \in 1..Len(ListedCandidates(LastField, LastOptions)) :
    LET c == ListedCandidates(LastField, LastOptions)[i]
    IN  c \in DOMAIN environ => Trimmed(LastOptions, environ[c]) = <<>>

\* C2: with default=D, D non-empty, and no candidate holding a non-empty value
\* (after the trimming the field asks for), the value carried on is D verbatim,
\* untrimmed; it is case-converted and coerced like any value, so that
\* default=8080 on an absent PORT yields the integer 8080.
C2_DefaultVerbatim ==
  (/\ Stepped
   /\ DEFAULT \in DOMAIN LastOptions
   /\ LastOptions[DEFAULT] # <<>>
   /\ NoCandidateValue)
  => /\ last.val = LastOptions[DEFAULT]
     /\ last.cased = Cased(LastOptions, LastOptions[DEFAULT])
     /\ last.err.kind # "required"
     /\ (scen.root = "Defaults" /\ last.path = <<1>> /\ parser = NewParser)
          => last.err = Nil /\ cfg[<<1>>] = 8080
     /\ (scen.root = "Defaults" /\ last.path = <<2>> /\ parser = NewParser)
          => last.err = Nil /\ cfg[<<2>>] = <<" ", "D", "V", " ">>
     /\ (scen.root = "Defaults" /\ last.path = <<4>> /\ parser = NewParser)
          => last.err = Nil /\ cfg[<<4>>] = MakeSlice(<<<<"a">>, <<"b">>>>)

\* C2 witness: PORT is absent and the int field holds its default, 8080; and a
\* white-space-only HOST has given way to the untrimmed default
C2_Witness ==
  /\ Stepped
  /\ scen.root = "Defaults"
  /\ last.path = <<2>>
  /\ <<"P", "O", "R", "T">> \notin DOMAIN environ
  /\ cfg[<<1>>] = 8080
  /\ <<"H", "O", "S", "T">> \in DOMAIN environ /\ environ[<<"H", "O", "S", "T">>] = <<" ">>
  /\ last.val = <<" ", "D", "v", " ">>

\* the value of the last field after lookup, trimming and default substitution,
\* as the specification describes the three steps
ValueAfterDefault ==
  LET v == Trimmed(LastOptions,
                   FirstNonEmpty(ListedCandidates(LastField, LastOptions)))
  IN  IF v = <<>> /\ DEFAULT \in DOMAIN LastOptions /\ LastOptions[DEFAULT] # <<>>
      THEN LastOptions[DEFAULT] ELSE v

\* C3: Unmarshal returns the missing-required error exactly when the field is
\* marked required and its value is empty after lookup, trimming (unless
\* notrim) and default substitution.
C3_RequiredExactlyWhenEmpty ==
  Stepped =>
    /\ (last.err.kind = "required")
         <=> (REQUIRED \in DOMAIN LastOptions /\ ValueAfterDefault = <<>>)
    /\ last.err.kind = "required" => result = last.err /\ stack = <<>>

\* C3 witness: a required field without notrim fails on a white-space-only value
C3_Witness ==
  /\ Stepped
  /\ scen.root = "Required"
  /\ last.path = <<3>>
  /\ <<"M", "O", "D", "E">> \in DOMAIN environ /\ environ[<<"M", "O", "D", "E">>] = <<" ">>
  /\ result.kind = "required"

\* the items of a list value: split on the separator, each item trimmed, the
\* empty ones dropped, the order kept
Items(v, separator) ==
  LET parts == Split(v, separator)
  IN  SelectSeq([i \in 1..Len(parts) |-> TrimSpace(parts[i])],
                LAMBDA item : item # <<>>)

\* C4: for a sequence field without notrim the assigned sequence is the list of
\* the value's items (split on the configured list separator, trimmed, empty
\* items dropped, order kept), each coerced to the element type; an empty value
\* or a value without surviving item gives a zero-length sequence and no error.
C4_SequenceItems ==
  (/\ Stepped
   /\ LastField.Kind = "slice"
   /\ NOTRIM \notin DOMAIN LastOptions
   /\ last.err.kind # "required")
  => LET items  == Items(last.cased, parser.SliceValueSeparator)
         coerce == [i \in 1..Len(items) |->
                      setReflectValue(items[i], LastField.Elem, LastOptions)]
     IN  IF \A i \in 1..Len(items) : coerce[i].err = Nil
         THEN /\ last.err = Nil
              /\ cfg[last.path] = MakeSlice([i \in 1..Len(items) |-> coerce[i].v])
         ELSE /\ last.err # Nil
              /\ \E i \in 1..Len(items) :
                   /\ last.err = coerce[i].err
                   /\ \A j \in 1..(i - 1) : coerce[j].err = Nil

\* C4 witness: " a | |b" has become the two items a and b, and "|||" an empty
\* sequence, in one call
C4_Witness ==
  /\ Stepped
  /\ scen.root = "Lists"
  /\ parser = NewParser
  /\ last.path = <<2>>
  /\ DOMAIN environ = scen.keys
  /\ environ[<<"H">>] = <<" ", "a", " ", "|", " ", "|", "b">>
  /\ cfg[<<1>>] = MakeSlice(<<<<"a">>, <<"b">>>>)
  /\ environ[<<"I">>] = <<"|", "|", "|">>
  /\ cfg[<<2>>] = MakeSlice(<<>>)
  /\ last.err = Nil

\* the leaf fields of the struct in declaration order, depth first
Leaves == LeafPaths(scen.root, <<>>)

\* position of a leaf in that order
LeafIndex(path) == CHOOSE n \in 1..Len(Leaves) : Leaves[n] = path

\* the field's name is an exported one: it begins with an upper-case letter
Exported(f) == Head(f.Name) \in UpperLetters

\* every field on the way to the leaf, the leaf included, is exported
Reachable(path) ==
  \A n \in 1..Len(path) : Exported(FieldAt(scen.root, SubSeq(path, 1, n)))

\* the leaf is one Unmarshal resolves: annotated, and reachable through settable fields
Resolvable(path) == Reachable(path) /\ FieldAt(scen.root, path).HasTag

\* what resolving the leaf under the present environment and parser comes to
Resolution(path) == resolveField(FieldAt(scen.root, path), parser, environ)

\* the last top-level call has returned an error
Failed == result # NoResult /\ result # Nil

\* C5: Unmarshal is fail-fast in declaration order, depth first: when the call
\* returns an error raised at field k, every annotated settable field before k
\* holds its resolved value, no field after k is modified, and the error
\* returned is the one raised at k; a call that returns nil has resolved every
\* such field without error.
C5_FailFast ==
  /\ Failed =>
       /\ stack = <<>>
       /\ result = last.err
       /\ result = Resolution(last.path).err
       /\ \A n \in 1..Len(Leaves) :
            /\ (n < LeafIndex(last.path) /\ Resolvable(Leaves[n]))
                 => /\ Resolution(Leaves[n]).err = Nil
                    /\ cfg[Leaves[n]] = Resolution(Leaves[n]).v
            /\ n > LeafIndex(last.path) => cfg[Leaves[n]] = cfg0[Leaves[n]]
  /\ result = Nil =>
       \A n \in 1..Len(Leaves) :
         Resolvable(Leaves[n]) => Resolution(Leaves[n]).err = Nil

\* C5 witness: the call on a struct with earlier content failed inside the nested
\* struct, at Db.Port; Host and Db.Host before it are set, Mode and Replica.Host
\* after it still hold what they held
C5_Witness ==
  /\ Failed
  /\ scen.root = "Outer"
  /\ scen.prior = "dirty"
  /\ last.path = <<4, 2>>
  /\ result.kind = "parse"
  /\ cfg[<<1>>] = <<"7">>
  /\ cfg[<<4, 1>>] = <<"7">>
  /\ cfg[<<6>>] = <<"o", "l", "d">>
  /\ cfg[<<7, 1>>] = <<"o", "l", "d">>

\* what the leaf held when the struct was handed over
InitialValue(path) ==
  IF scen.prior = "dirty" THEN PriorValue(FieldAt(scen.root, path))
  ELSE ZeroValue(FieldAt(scen.root, path))

\* C6: a non-structure field without env annotation, and any field that cannot
\* be set (itself unexported, or inside an unexported struct field), annotated or
\* not, is never written: it holds what it held before, whatever calls were made.
C6_SkippedFieldsUntouched ==
  \A path \in DOMAIN cfg :
    (~FieldAt(scen.root, path).HasTag \/ ~Reachable(path))
      => cfg[path] = InitialValue(path) /\ cfg[path] = cfg0[path]

\* C6 witness: after a successful call on a struct with earlier content, the
\* annotated exported fields are set while the unannotated Plain, the annotated
\* unexported hidden and Db.secret, and priv.Host inside an unexported struct
\* hold their earlier content
C6_Witness ==
  /\ result = Nil
  /\ scen.root = "Outer"
  /\ scen.prior = "dirty"
  /\ cfg[<<1>>] = <<"7">>
  /\ cfg[<<4, 2>>] = 7
  /\ cfg[<<2>>] = <<"o", "l", "d">>
  /\ cfg[<<3>>] = 1
  /\ cfg[<<4, 4>>] = <<"o", "l", "d">>
  /\ cfg[<<5, 1>>] = <<"o", "l", "d">>

\* C7: a settable struct field is recursed into whether or not it carries an
\* annotation, with the same parser; an annotated field inside it is resolved as
\* a top-level field of the same name and annotation is, the outer field's name
\* and annotation contributing nothing.
C7_NestedResolvedAlike ==
  /\ result = Nil =>
       /\ \A path \in DOMAIN cfg :
            Resolvable(path) => cfg[path] = Resolution(path).v
       /\ scen.root = "Outer" =>
            /\ cfg[<<4, 1>>] = cfg[<<1>>]
            /\ cfg[<<7, 1>>] = cfg[<<1>>]
            /\ cfg[<<7, 2>>] = cfg[<<4, 2>>]
  /\ (Stepped /\ Len(last.path) > 1) =>
       /\ last.names = getEnvNames(LastField.Name, LastOptions, parser)
       /\ last.err = Resolution(last.path).err

\* C7 witness: after a successful call the unannotated Replica and the annotated
\* Db both hold, in Host, what the top-level Host holds
C7_Witness ==
  /\ result = Nil
  /\ scen.root = "Outer"
  /\ scen.prior = "dirty"
  /\ <<"H">> \in DOMAIN environ
  /\ environ[<<"H">>] = <<"x">>
  /\ cfg[<<1>>] = <<"x">>
  /\ cfg[<<4, 1>>] = <<"x">>
  /\ cfg[<<7, 1>>] = <<"x">>

\* ---------------------------------------------------------------------------
\* Numeric range and width (C8..C10)
\* ---------------------------------------------------------------------------

\* lo <= hi in the order of the numbers: NaN stands below, above and beside nothing
Within(lo, hi) == ~lo.nan /\ ~hi.nan /\ lo.n <= hi.n

\* the number the last field's value parses to, as strconv reads it for the
\* field's kind: ok, and the float64 of the value
LastNumber ==
  IF LastField.Kind \in FloatKinds THEN ParseFloat(last.cased)
  ELSE IF LastField.Kind \in SignedKinds
  THEN [ok |-> ParseInt(last.cased).ok, v |-> Num(ParseInt(last.cased).v)]
  ELSE [ok |-> ParseUint(last.cased).ok, v |-> Num(ParseUint(last.cased).v)]

\* the last field has a bound, and every bound it has is a number
Bounded ==
  /\ {MIN, MAX} \cap DOMAIN LastOptions # {}
  /\ MIN \in DOMAIN LastOptions => ParseFloat(LastOptions[MIN]).ok
  /\ MAX \in DOMAIN LastOptions => ParseFloat(LastOptions[MAX]).ok

\* min <= v <= max for each bound present
InRange(v) ==
  /\ MIN \in DOMAIN LastOptions => Within(ParseFloat(LastOptions[MIN]).v, v)
  /\ MAX \in DOMAIN LastOptions => Within(v, ParseFloat(LastOptions[MAX]).v)

\* the last iteration was on a numeric field of one of the kinds, reached the
\* coercion step with a bound to check, and its value parsed
RangeChecked(kinds) ==
  /\ Stepped
  /\ LastField.Kind \in kinds
  /\ last.err.kind \notin {"required", "parse"}
  /\ Bounded
  /\ LastNumber.ok

\* C8: for a signed-integer or floating-point field with min and/or max, a
\* successfully parsed value v is accepted exactly when min <= v <= max for each
\* bound present, both bounds inclusive; otherwise Unmarshal returns a range
\* error and does not assign.
C8_InclusiveRange ==
  RangeChecked(SignedKinds \cup FloatKinds) =>
    IF InRange(LastNumber.v)
    THEN /\ last.err = Nil
         /\ cfg[last.path] = IF LastField.Kind \in FloatKinds
                             THEN LastNumber.v ELSE LastNumber.v.n
    ELSE /\ last.err.kind \in {"below_min", "above_max"}
         /\ cfg[last.path] = cfg0[last.path]

\* C9: for an unsigned-integer field with min and/or max, a successfully parsed
\* value below min or above max makes Unmarshal fail with an out-of-range error,
\* as it does for signed integers.
C9_UnsignedRange ==
  (RangeChecked(UnsignedKinds) /\ ~InRange(LastNumber.v))
    => last.err.kind \in {"below_min", "above_max"}

\* x is a value of the integer kind. The model's values stay below 2^31, so
\* they are values of every kind of 32 bits and more but the unsigned ones,
\* which hold no negative number.
Fits(kind, x) ==
  IF kind \in UnsignedKinds
  THEN x >= 0 /\ (BitSize(kind) >= 32 \/ x < Pow2(BitSize(kind)))
  ELSE BitSize(kind) >= 32
         \/ (x >= 0 - Pow2(BitSize(kind) - 1) /\ x < Pow2(BitSize(kind) - 1))

IntegerKinds == SignedKinds \cup UnsignedKinds

\* the base-10 integers the last field's value consists of: the value itself
\* for an integer field, its items for a sequence of integers; <<>> when one of
\* them is no base-10 integer
LastIntegers ==
  LET texts == IF LastField.Kind = "slice"
               THEN Items(last.cased, parser.SliceValueSeparator)
               ELSE <<last.cased>>
  IN  IF \A i \in 1..Len(texts) : ParseInt(texts[i]).ok
      THEN [i \in 1..Len(texts) |-> ParseInt(texts[i]).v]
      ELSE <<>>

\* the integer kind the last field holds, "" when it holds no integer
LastIntegerKind ==
  IF LastField.Kind \in IntegerKinds THEN LastField.Kind
  ELSE IF LastField.Kind = "slice" /\ LastField.Elem \in IntegerKinds
  THEN LastField.Elem
  ELSE ""

\* C10: integer coercion is width-aware: a base-10 value that does not fit the
\* declared width of the target integer type, field or sequence element, makes
\* Unmarshal fail with an invalid-numeric-value error, and a field never ends up
\* holding a truncated or wrapped-around value.
C10_WidthAwareIntegers ==
  (/\ Stepped
   /\ LastIntegerKind # ""
   /\ NOTRIM \notin DOMAIN LastOptions
   /\ last.err.kind # "required"
   /\ LastIntegers # <<>>)
  => IF \E i \in 1..Len(LastIntegers) : ~Fits(LastIntegerKind, LastIntegers[i])
     THEN last.err.kind = "parse"
     ELSE last.err = Nil =>
            cfg[last.path] = IF LastField.Kind = "slice"
                             THEN MakeSlice(LastIntegers)
                             ELSE LastIntegers[1]

\* ---------------------------------------------------------------------------
\* Validators (C11, C12)
\* ---------------------------------------------------------------------------

\* the v_aws_* options of the last field
LastValidators == AwsTags \cap DOMAIN LastOptions

\* the errors of the four validators
ValidatorErrors ==
  {"v_aws_region", "v_aws_account_id", "v_aws_bucket_name", "v_aws_role_arn"}

\* the last iteration was on a scalar field and went past the required check
ScalarChecked ==
  /\ Stepped
  /\ LastField.Kind # "slice"
  /\ last.err.kind # "required"

\* C11: a scalar field with two or more v_aws_* options makes Unmarshal fail with
\* the multiple-exclusive-validators error whatever the value, an empty value of
\* a field that is not required included.
C11_ExclusiveValidators ==
  (ScalarChecked /\ Cardinality(LastValidators) >= 2)
    => last.err.kind = "multiple_v_aws"

\* C12: for a scalar field with exactly one v_aws_* option and without required,
\* an empty resolved value is exempt from the validator, although "" does not
\* match the validator's format: no validation error, and the empty value is
\* assigned.
C12_EmptyOptionalExempt ==
  (/\ ScalarChecked
   /\ Cardinality(LastValidators) = 1
   /\ REQUIRED \notin DOMAIN LastOptions
   /\ last.cased = <<>>)
  => /\ \A tag \in LastValidators : awsValidationMap(tag, <<>>) # Nil
     /\ last.err.kind \notin ValidatorErrors
     /\ LastField.Kind = "string" => last.err = Nil /\ cfg[last.path] = <<>>

\* C12 witness: Bucket, with v_aws_bucket_name alone, held "old" and has been set
\* to "" from an environment without B
C12_Witness ==
  /\ scen.root = "Aws"
  /\ Stepped
  /\ last.path = <<1>>
  /\ <<"B">> \notin DOMAIN environ
  /\ cfg0[<<1>>] = <<"o", "l", "d">>
  /\ cfg[<<1>>] = <<>>
  /\ last.err = Nil

\* ---------------------------------------------------------------------------
\* Booleans (C13, C14)
\* ---------------------------------------------------------------------------

\* the last iteration was on a bool field or on a sequence of bools without
\* notrim, and went past the required check
BoolChecked ==
  /\ Stepped
  /\ \/ LastField.Kind = "bool"
     \/ LastField.Kind = "slice" /\ LastField.Elem = "bool"
  /\ NOTRIM \notin DOMAIN LastOptions
  /\ last.err.kind # "required"

\* the texts coerced to bool in the last iteration: the value, or its items
LastBoolTexts ==
  IF LastField.Kind = "slice"
  THEN Items(last.cased, parser.SliceValueSeparator)
  ELSE <<last.cased>>

\* the text is a boolean token in some letter case: true, false, t, f, 1, 0
BoolToken(text) == ToLower(text) \in {<<"t", "r", "u", "e">>, <<"f", "a", "l", "s", "e">>, <<"t">>, <<"f">>, <<"1">>, <<"0">>}

\* C13: for a bool field or element, every value that is no boolean token makes
\* Unmarshal return the invalid-boolean error and leaves the field unassigned;
\* 2, -1, yes and other words are rejected, the only numbers accepted are 1 and 0.
C13_NonBooleanRejected ==
  (BoolChecked /\ \E i \in 1..Len(LastBoolTexts) : ~BoolToken(LastBoolTexts[i]))
    => /\ last.err.kind = "parse"
       /\ cfg[last.path] = cfg0[last.path]

\* C13 witness: Debug, TRUE before the call, set from "2": the error is
\* returned and Debug is as it was
C13_Witness ==
  /\ scen.root = "Bools"
  /\ Stepped
  /\ last.path = <<1>>
  /\ last.cased = <<"2">>
  /\ result.kind = "parse"
  /\ cfg[<<1>>] = TRUE

\* the bool a token stands for
BoolOf(text) == ToLower(text) \in {<<"t", "r", "u", "e">>, <<"1">>}

\* every text of the last iteration is accepted, and the field holds their bools
BoolsAssigned ==
  /\ last.err = Nil
  /\ cfg[last.path] =
       IF LastField.Kind = "slice"
       THEN MakeSlice([i \in 1..Len(LastBoolTexts) |-> BoolOf(LastBoolTexts[i])])
       ELSE BoolOf(LastBoolTexts[1])

\* C14: boolean coercion accepts true and false in every mix of upper- and
\* lower-case letters (such as tRuE or fALSE), and 1 and 0, yielding true for
\* true/1 and false for false/0.
C14_CaseInsensitive ==
  (/\ BoolChecked
   /\ LastBoolTexts # <<>>
   /\ \A i \in 1..Len(LastBoolTexts) :
        ToLower(LastBoolTexts[i]) \in {<<"t", "r", "u", "e">>, <<"f", "a", "l", "s", "e">>, <<"1">>, <<"0">>})
  => BoolsAssigned

\* the spellings of true and false that are accepted
CanonicalSpellings == {<<"t", "r", "u", "e">>, <<"T", "R", "U", "E">>, <<"T", "r", "u", "e">>, <<"f", "a", "l", "s", "e">>, <<"F", "A", "L", "S", "E">>, <<"F", "a", "l", "s", "e">>}

\* C14 as amended: boolean coercion accepts true and false in the spellings
\* true, TRUE, True, false, FALSE, False only, and 1 and 0, yielding true for
\* true/1 and false for false/0; any other mix of letter cases of true and
\* false (such as tRuE or fALSE) is rejected with the invalid-boolean error.
C14_CanonicalSpellings ==
  BoolChecked =>
    /\ (/\ LastBoolTexts # <<>>
        /\ \A i \in 1..Len(LastBoolTexts) :
             LastBoolTexts[i] \in CanonicalSpellings \cup {<<"1">>, <<"0">>})
       => BoolsAssigned
    /\ (\E i \in 1..Len(LastBoolTexts) :
          /\ ToLower(LastBoolTexts[i]) \in {<<"t", "r", "u", "e">>, <<"f", "a", "l", "s", "e">>}
          /\ LastBoolTexts[i] \notin CanonicalSpellings)
       => last.err.kind = "parse"

\* C14 witness: Flags has been set from "True|0" to [true, false]
C14_Witness ==
  /\ scen.root = "Bools"
  /\ Stepped
  /\ last.path = <<2>>
  /\ last.cased = <<"T", "r", "u", "e", "|", "0">>
  /\ last.err = Nil
  /\ cfg[<<2>>] = MakeSlice(<<TRUE, FALSE>>)

\* ---------------------------------------------------------------------------
\* Trimming and letter case (C15..C17)
\* ---------------------------------------------------------------------------

\* C15: for a sequence field with notrim the items are not trimmed, but items
\* that are the empty string are still dropped: a||b gives two elements and |||
\* a zero-length sequence without error.
C15_NotrimDropsEmptyItems ==
  (/\ Stepped
   /\ LastField.Kind = "slice"
   /\ NOTRIM \in DOMAIN LastOptions
   /\ last.err.kind # "required")
  => LET items  == SelectSeq(Split(last.cased, parser.SliceValueSeparator),
                             LAMBDA item : item # <<>>)
         coerce == [i \in 1..Len(items) |->
                      setReflectValue(items[i], LastField.Elem, LastOptions)]
     IN  IF \A i \in 1..Len(items) : coerce[i].err = Nil
         THEN /\ last.err = Nil
              /\ cfg[last.path] = MakeSlice([i \in 1..Len(items) |-> coerce[i].v])
         ELSE last.err # Nil

\* v without its leading and trailing white space
Stripped(v) ==
  LET solid == {i \in 1..Len(v) : v[i] \notin WhiteSpace}
  IN  IF solid = {} THEN <<>>
      ELSE SubSeq(v, CHOOSE i \in solid : \A j \in solid : i <= j,
                     CHOOSE i \in solid : \A j \in solid : i >= j)

\* the raw value of the last field as the trim step leaves it
LastTrimmed == IF NOTRIM \in DOMAIN LastOptions THEN last.raw ELSE Stripped(last.raw)

\* C16: without notrim the leading and trailing white space of the raw value is
\* removed before defaulting, the required check, case conversion and coercion;
\* with notrim the raw value is carried through as it is.
C16_TrimUnlessNotrim ==
  Stepped =>
    /\ last.val = IF LastTrimmed = <<>> /\ DEFAULT \in DOMAIN LastOptions
                  THEN LastOptions[DEFAULT] ELSE LastTrimmed
    /\ last.err.kind = "required" => LastTrimmed = <<>>
    /\ (/\ LastField.Kind = "string"
        /\ last.err = Nil
        /\ {LOWER, UPPER, DEFAULT} \cap DOMAIN LastOptions = {})
       => cfg[last.path] = LastTrimmed

\* C16 witness: from H = " x ", Host holds "x" and Raw, with notrim, " x "
C16_Witness ==
  /\ scen.root = "Trim"
  /\ result = Nil
  /\ <<"H">> \in DOMAIN environ
  /\ environ[<<"H">>] = <<" ", "x", " ">>
  /\ cfg[<<1>>] = <<"x">>
  /\ cfg[<<2>>] = <<" ", "x", " ">>

\* v in the letter case the options ask for: upper-case with upper, lower-case
\* with lower alone
InCase(options, v) ==
  IF UPPER \in DOMAIN options THEN ToUpper(v)
  ELSE IF LOWER \in DOMAIN options THEN ToLower(v)
  ELSE v

\* C17: lower alone gives the lower-cased value, upper alone the upper-cased
\* value, both together the upper-cased value in whatever order the annotation
\* lists them; for sequence fields the conversion reaches every item.
C17_UpperAfterLower ==
  Stepped =>
    /\ last.cased = InCase(LastOptions, last.val)
    /\ (LastField.Kind = "string" /\ last.err = Nil)
         => cfg[last.path] = InCase(LastOptions, last.val)
    /\ (/\ LastField.Kind = "slice"
        /\ LastField.Elem = "string"
        /\ NOTRIM \notin DOMAIN LastOptions
        /\ last.err = Nil)
         => LET items == Items(last.val, parser.SliceValueSeparator)
            IN  cfg[last.path] =
                  MakeSlice([i \in 1..Len(items) |-> InCase(LastOptions, items[i])])

\* C17 witness: from S = "Ab" and L = "aB|Cd", lower gives "ab", upper "AB",
\* lower,upper and upper,lower "AB", and the sequence with both [AB, CD]
C17_Witness ==
  /\ scen.root = "Case"
  /\ result = Nil
  /\ cfg[<<1>>] = <<"a", "b">>
  /\ cfg[<<2>>] = <<"A", "B">>
  /\ cfg[<<3>>] = <<"A", "B">>
  /\ cfg[<<4>>] = <<"A", "B">>
  /\ cfg[<<5>>] = MakeSlice(<<<<"A", "B">>, <<"C", "D">>>>)

\* ---------------------------------------------------------------------------
\* Candidate names (C18)
\* ---------------------------------------------------------------------------

\* where name first occurs in the sequence
FirstAt(seq, name) ==
  CHOOSE i \in 1..Len(seq) : seq[i] = name /\ \A j \in 1..(i - 1) : seq[j] # name

\* C18: the candidate names of a field are the name entries and the three forms
\* of the field name, each behind the name prefix, without duplicates, every
\* name standing where it first occurs; the list has at most (number of name
\* entries + 3) elements.
C18_CandidatesPrefixedDistinct ==
  Stepped =>
    LET all == ListedCandidates(LastField, LastOptions)
    IN  /\ \A i \in 1..Len(last.names) : HasPrefix(last.names[i], parser.NamePrefix)
        /\ \A i, j \in 1..Len(last.names) : last.names[i] = last.names[j] => i = j
        /\ {last.names[i] : i \in 1..Len(last.names)} = {all[i] : i \in 1..Len(all)}
        /\ \A i, j \in 1..Len(last.names) :
             i < j => FirstAt(all, last.names[i]) < FirstAt(all, last.names[j])
        /\ Len(last.names) <= Len(all)

\* C18 witness: field AB with name=AB|A under the prefix P_ has the candidates
\* P_AB, P_A, P_ab: the field name and its upper-cased form, equal to the first
\* name entry, are not listed again
C18_Witness ==
  /\ scen.root = "Fallback"
  /\ Stepped
  /\ last.path = <<2>>
  /\ parser.NamePrefix = <<"P", "_">>
  /\ last.names = <<<<"P", "_", "A", "B">>, <<"P", "_", "A">>, <<"P", "_", "a", "b">>>>

\* ---------------------------------------------------------------------------
\* Role ARN (C19)
\* ---------------------------------------------------------------------------

\* the characters of a role name other than letters and digits
RoleNameMarks == {"_", "+", "=", ",", ".", "@", "-"}

\* arn:aws:iam:: + 12 decimal digits + :role/ + a role name of 1 to 64
\* characters among letters, digits and the marks
RoleArnForm(v) ==
  LET n    == Len(ArnPrefix) + 12 + Len(RolePart)
      name == SubSeq(v, n + 1, Len(v))
  IN  /\ Len(v) > n
      /\ SubSeq(v, 1, Len(ArnPrefix)) = ArnPrefix
      /\ AllDigits(SubSeq(v, Len(ArnPrefix) + 1, Len(ArnPrefix) + 12))
      /\ SubSeq(v, Len(ArnPrefix) + 13, n) = RolePart
      /\ Len(name) <= 64
      /\ \A i \in 1..Len(name) :
           name[i] \in LowerLetters \cup UpperLetters \cup Digits \cup RoleNameMarks

\* C19: the role-ARN validator accepts exactly the strings of the form
\* arn:aws:iam:: + 12 decimal digits + :role/ + a role name of 1 to 64
\* characters among letters, digits and the marks _ + = , . @ and -; a role name
\* with digits, as in arn:aws:iam::123456789012:role/Role1, is accepted.
C19_RoleArnAccepted ==
  (/\ ScalarChecked
   /\ LastValidators = {V_AWS_ROLE_ARN}
   /\ last.cased # <<>>)
  => (last.err = Nil <=> RoleArnForm(last.cased))
\* ---------------------------------------------------------------------------
\* Parser configuration (C20)
\* ---------------------------------------------------------------------------

\* C20: after any sequence of NewParser, WithTagOptionSeparator,
\* WithSliceValueSeparator and WithNamePrefix the option separator differs from
\* the list separator; a call that would make them equal panics at once, outside
\* any Unmarshal, and leaves both separators as they were.
C20_SeparatorsDiffer ==
  /\ [](parser.TagOptionSeparator # parser.SliceValueSeparator)
  /\ [][(panicked' /\ ~panicked)
          => /\ stack = <<>>
             /\ stack' = <<>>
             /\ parser' = parser]_vars

\* C20 witness: with the list separator ";" and the option separator "|", a
\* call asking for the list separator "|" has panicked
C20_Witness ==
  /\ panicked
  /\ parser.TagOptionSeparator = <<"|">>
  /\ parser.SliceValueSeparator = <<";">>

\* ---------------------------------------------------------------------------
\* Repeated calls (C21, C22)
\* ---------------------------------------------------------------------------

\* what a call on a struct without content would leave in the leaf under the
\* present environment and parser
FreshValue(path) ==
  resolveField(FieldAt(scen.root, path), parser, environ).v

\* C21: nothing is cached between calls: after each successful call, whatever
\* environment changes and calls went before, every annotated settable field
\* that is no struct holds the value the environment and the parser at the time
\* of that call determine; nothing of an earlier call or of the struct's earlier
\* content is left in it.
C21_NothingCached ==
  (result = Nil /\ stack = <<>>) =>
    \A path \in DOMAIN cfg :
      (FieldAt(scen.root, path).HasTag /\ Reachable(path))
        => cfg[path] = FreshValue(path)

\* C21 witness: a call has left Debug true and Flags [true, false]; the
\* environment was changed to D=0 and F=1, and the next call has left Debug
\* false and Flags [true]
C21_Witness ==
  /\ scen.root = "Bools"
  /\ result = Nil
  /\ DOMAIN environ = {<<"D">>, <<"F">>}
  /\ environ[<<"D">>] = <<"0">>
  /\ environ[<<"F">>] = <<"1">>
  /\ cfg0[<<1>>] = TRUE
  /\ cfg0[<<2>>] = MakeSlice(<<TRUE, FALSE>>)
  /\ cfg[<<1>>] = FALSE
  /\ cfg[<<2>>] = MakeSlice(<<TRUE>>)

\* C22: Unmarshal is idempotent under an unchanged environment: the second of
\* two calls in a row on the same struct with the same parser returns what the
\* first returned and leaves every field as the first left it.
C22_Idempotent ==
  (result # NoResult /\ result0 # NoResult) =>
    /\ result = result0
    /\ cfg = cfg0

\* C22 witness: two calls in a row have both set Hosts to [a, b] from H = " a | |b"
C22_Witness ==
  /\ scen.root = "Lists"
  /\ result0 = Nil
  /\ result = Nil
  /\ cfg[<<1>>] = MakeSlice(<<<<"a">>, <<"b">>>>)
  /\ cfg0[<<1>>] = MakeSlice(<<<<"a">>, <<"b">>>>)

\* the second of two calls in a row has failed as the first did
SecondCallFailed ==
  /\ result0 # NoResult
  /\ result0 # Nil
  /\ result = result0

\* ---------------------------------------------------------------------------
\* Tag parsing (C23)
\* ---------------------------------------------------------------------------

\* the segments of the last field's annotation
Segments == Split(LastField.Tag, parser.TagOptionSeparator)

\* where the first "=" of a segment stands, 0 when it has none
FirstEq(seg) ==
  IF \E i \in 1..Len(seg) : seg[i] = "="
  THEN CHOOSE i \in 1..Len(seg) : seg[i] = "=" /\ \A j \in 1..(i - 1) : seg[j] # "="
  ELSE 0

\* the key of a segment: what stands before its first "=", trimmed, lower-cased
SegmentKey(seg) ==
  Stripped(ToLower(IF FirstEq(seg) = 0 THEN seg ELSE SubSeq(seg, 1, FirstEq(seg) - 1)))

\* the value of a segment: all that stands after its first "=", "" without one
SegmentValue(seg) ==
  IF FirstEq(seg) = 0 THEN <<>> ELSE SubSeq(seg, FirstEq(seg) + 1, Len(seg))

\* C23: tag parsing splits the annotation on the option separator and each
\* segment at its first "=": the key is trimmed and lower-cased, the value is all
\* that follows the first "=" as it stands, a segment without "=" maps to "",
\* and of several segments with one key the last gives the value.
C23_TagParsing ==
  Stepped =>
    /\ DOMAIN LastOptions = {SegmentKey(Segments[i]) : i \in 1..Len(Segments)}
    /\ \A i \in 1..Len(Segments) :
         (\A j \in (i + 1)..Len(Segments) :
            SegmentKey(Segments[j]) # SegmentKey(Segments[i]))
           => LastOptions[SegmentKey(Segments[i])] = SegmentValue(Segments[i])

\* C23 witness: the annotation " Default =x, DEFAULT = a=b ,Name=T,required"
\* under the separator "," gives the keys default, name and required, and with
\* T unset the field holds the default of the second segment, " a=b "
C23_Witness ==
  /\ scen.root = "Tags"
  /\ Stepped
  /\ last.path = <<1>>
  /\ parser.TagOptionSeparator = <<",">>
  /\ DOMAIN LastOptions = {DEFAULT, NAME, REQUIRED}
  /\ last.names = <<<<"T">>, <<"O", "d", "d">>, <<"O", "D", "D">>, <<"o", "d", "d">>>>
  /\ last.raw = <<>>
  /\ last.err = Nil
  /\ cfg[<<1>>] = <<" ", "a", "=", "b", " ">>

\* ---------------------------------------------------------------------------
\* Malformed bounds (C24)
\* ---------------------------------------------------------------------------

NumericKinds == SignedKinds \cup UnsignedKinds \cup FloatKinds

\* the numeric kind the last field holds, as field or as element; "" otherwise
LastNumericKind ==
  IF LastField.Kind \in NumericKinds THEN LastField.Kind
  ELSE IF LastField.Kind = "slice" /\ LastField.Elem \in NumericKinds
  THEN LastField.Elem
  ELSE ""

\* the texts coerced to numbers in the last iteration: the value, or its items
LastNumberTexts ==
  IF LastField.Kind = "slice"
  THEN Items(last.cased, parser.SliceValueSeparator)
  ELSE <<last.cased>>

\* the text is a number of the kind
ParsesAs(kind, text) ==
  IF kind \in FloatKinds THEN ParseFloat(text).ok
  ELSE IF kind \in SignedKinds THEN ParseInt(text).ok
  ELSE ParseUint(text).ok

\* the option is present and its argument is no number
Malformed(option) ==
  option \in DOMAIN LastOptions /\ ~ParseFloat(LastOptions[option]).ok

\* the last iteration was on a numeric field or sequence with a min or max that
\* is no number, and every text of its value is a number of its kind
MalformedBoundMet ==
  /\ Stepped
  /\ LastNumericKind # ""
  /\ last.err.kind # "required"
  /\ Malformed(MIN) \/ Malformed(MAX)
  /\ LastNumberTexts # <<>>
  /\ \A i \in 1..Len(LastNumberTexts) : ParsesAs(LastNumericKind, LastNumberTexts[i])

\* C24: when a numeric field or sequence element has a min or max whose argument
\* is no number (min or max without "=" included) and the value itself parses,
\* Unmarshal returns the malformed-bound error and does not assign the field.
C24_MalformedBound ==
  MalformedBoundMet =>
    /\ last.err.kind \in {"invalid_min", "invalid_max"}
    /\ cfg[last.path] = cfg0[last.path]

\* C24 as amended: in that case Unmarshal returns an error and does not assign
\* the field; the error is the malformed-bound error, of min when min is
\* malformed, except that with a well-formed min and a malformed max a value
\* found below min gets the range error of min, which is checked first.
C24_MalformedBoundOrMinFirst ==
  MalformedBoundMet =>
    /\ last.err.kind \in {"invalid_min", "invalid_max", "below_min"}
    /\ cfg[last.path] = cfg0[last.path]
    /\ Malformed(MIN) => last.err.kind = "invalid_min"
    /\ last.err.kind = "below_min"
         => /\ MIN \in DOMAIN LastOptions
            /\ ~Malformed(MIN)
            /\ \E i \in 1..Len(LastNumberTexts) :
                 ~Within(ParseFloat(LastOptions[MIN]).v,
                         ParseFloat(LastNumberTexts[i]).v)

\* C24 witness: N with min=5,max=x, holding 1, is handed 7: the malformed-bound
\* error of max, and N still holds 1
C24_Witness ==
  /\ scen.root = "MinBad"
  /\ Stepped
  /\ last.cased = <<"7">>
  /\ result.kind = "invalid_max"
  /\ cfg[<<1>>] = 1

\* ---------------------------------------------------------------------------
\* Sequence fields and validators (C25)
\* ---------------------------------------------------------------------------

\* C25: for a sequence field the pipeline returns after list coercion: no domain
\* validator is run on the value or on any item, and v_aws_* options on a
\* sequence field, two or more of them included, never cause a validation or an
\* exclusivity error; the outcome is that of list coercion alone.
C25_SequencesNotValidated ==
  (Stepped /\ LastField.Kind = "slice" /\ LastValidators # {})
    => /\ last.err.kind \notin ValidatorErrors \cup {"multiple_v_aws"}
       /\ (LastField.Elem = "string" /\ last.err.kind # "required")
            => /\ last.err = Nil
               /\ cfg[last.path] =
                    MakeSlice(Items(last.cased, parser.SliceValueSeparator))
       /\ (/\ LastField.Elem \in SignedKinds
           /\ {MIN, MAX} \cap DOMAIN LastOptions = {}
           /\ \A i \in 1..Len(LastNumberTexts) : ParseInt(LastNumberTexts[i]).ok
           /\ last.err.kind # "required")
            => /\ last.err = Nil
               /\ Len(cfg[last.path].elems) = Len(LastNumberTexts)

\* C25 witness: Regions, with v_aws_region and v_aws_bucket_name, holds [a, b],
\* and Ids, with v_aws_account_id, has been set to [1, 2]
C25_Witness ==
  /\ scen.root = "SliceAws"
  /\ Stepped
  /\ last.path = <<2>>
  /\ last.err = Nil
  /\ cfg[<<1>>] = MakeSlice(<<<<"a">>, <<"b">>>>)
  /\ cfg[<<2>>] = MakeSlice(<<1, 2>>)

\* ---------------------------------------------------------------------------
\* Step order (C26)
\* ---------------------------------------------------------------------------

\* the last iteration was on a scalar field with one validator, went past the
\* required check and had a value to validate
Validated ==
  /\ ScalarChecked
  /\ Cardinality(LastValidators) = 1
  /\ InCase(LastOptions, last.val) # <<>>

\* C26: the steps of a field come in the order lookup, trim, default, required
\* check, case conversion, domain validation, coercion, assignment. The domain
\* validator sees the case-converted value: with lower, US-EAST-1 passes the
\* region check and is stored as us-east-1; with upper, no non-empty value
\* passes it; a substituted default is case-converted and validated like an
\* environment value; a validation error leaves the field as it was.
C26_StepOrder ==
  /\ Stepped =>
       /\ last.val = IF LastTrimmed = <<>> /\ DEFAULT \in DOMAIN LastOptions
                     THEN LastOptions[DEFAULT] ELSE LastTrimmed
       /\ last.err.kind = "required"
            <=> (REQUIRED \in DOMAIN LastOptions /\ last.val = <<>>)
       /\ last.cased = InCase(LastOptions, last.val)
  /\ Validated =>
       /\ last.err.kind \in ValidatorErrors
            <=> \E tag \in LastValidators :
                  awsValidationMap(tag, InCase(LastOptions, last.val)) # Nil
       /\ last.err.kind \in ValidatorErrors => cfg[last.path] = cfg0[last.path]
       /\ (last.err = Nil /\ LastField.Kind = "string")
            => cfg[last.path] = InCase(LastOptions, last.val)
       /\ (V_AWS_REGION \in LastValidators /\ UPPER \in DOMAIN LastOptions)
            => last.err.kind = "v_aws_region"
       /\ (/\ V_AWS_REGION \in LastValidators
           /\ LOWER \in DOMAIN LastOptions
           /\ UPPER \notin DOMAIN LastOptions
           /\ last.val = <<"U", "S", "-", "E", "A", "S", "T", "-", "1">>)
            => last.err = Nil /\ cfg[last.path] = <<"u", "s", "-", "e", "a", "s", "t", "-", "1">>

\* C26 witness: without D and with G = US-EAST-1, Def holds its default as
\* us-east-1, Lo holds us-east-1, and Up, with upper, has failed the region
\* check on US-EAST-1
C26_Witness ==
  /\ scen.root = "Region"
  /\ Stepped
  /\ <<"D">> \notin DOMAIN environ
  /\ <<"G">> \in DOMAIN environ
  /\ environ[<<"G">>] = <<"U", "S", "-", "E", "A", "S", "T", "-", "1">>
  /\ last.path = <<4>>
  /\ last.cased = <<"U", "S", "-", "E", "A", "S", "T", "-", "1">>
  /\ result.kind = "v_aws_region"
  /\ cfg[<<1>>] = <<"u", "s", "-", "e", "a", "s", "t", "-", "1">>
  /\ cfg[<<2>>] = <<"u", "s", "-", "e", "a", "s", "t", "-", "1">>

\* ---------------------------------------------------------------------------
\* The failing field (C27)
\* ---------------------------------------------------------------------------

\* C27: the field at which Unmarshal fails is not modified by that call: a
\* scalar's required, validator, parse, range or malformed-bound error comes
\* before any assignment, and a sequence with an error on any item keeps its
\* previous sequence, never a partially filled or shorter one.
C27_FailingFieldUntouched ==
  Failed =>
    /\ last.err = result
    /\ cfg[last.path] = cfg0[last.path]

\* C27 witness: Flags held [true]; a call with F = 1|x has failed on the second
\* item and Flags still holds [true]
C27_Witness ==
  /\ scen.root = "Bools"
  /\ Failed
  /\ last.path = <<2>>
  /\ last.cased = <<"1", "|", "x">>
  /\ result.kind = "parse"
  /\ cfg[<<2>>] = MakeSlice(<<TRUE>>)

\* ---------------------------------------------------------------------------
\* Empty values (C28)
\* ---------------------------------------------------------------------------

\* the last iteration went past the required check with an empty value
EmptyResolved ==
  /\ Stepped
  /\ last.cased = <<>>
  /\ last.err.kind # "required"

\* C28: an annotated scalar field of signed-integer, unsigned-integer,
\* floating-point or boolean type whose resolved value is empty makes Unmarshal
\* return a parse error though the field is not required; only string fields,
\* assigned "", and sequence fields, assigned a zero-length sequence, accept an
\* empty value.
C28_EmptyScalarFails ==
  EmptyResolved =>
    /\ REQUIRED \notin DOMAIN LastOptions
    /\ LastField.Kind \in NumericKinds \cup {"bool"}
         => /\ last.err.kind = "parse"
            /\ cfg[last.path] = cfg0[last.path]
    /\ LastField.Kind = "string"
         => /\ last.err = Nil
            /\ cfg[last.path] = <<>>
    /\ LastField.Kind = "slice"
         => /\ last.err = Nil
            /\ cfg[last.path] = MakeSlice(<<>>)

\* C28 witness: U, an unsigned integer that is not required and has no default,
\* met an environment without V: parse error, U as it was
C28_Witness ==
  /\ scen.root = "BadUint"
  /\ EmptyResolved
  /\ environ = [k \in {} |-> <<>>]
  /\ LastField.Kind \in UnsignedKinds
  /\ result.kind = "parse"
  /\ cfg[<<1>>] = 1

\* ---------------------------------------------------------------------------
\* Validators and the empty string (C29)
\* ---------------------------------------------------------------------------

\* the options without `required`
NotRequired(options) ==
  [k \in (DOMAIN options) \ {REQUIRED} |-> options[k]]

\* checkForAwsValidation was called in the last iteration and went on to call a
\* validator: the value was not exempt and one v_aws_* option is present
ValidatorInvoked ==
  /\ ScalarChecked
  /\ Cardinality(LastValidators) = 1
  /\ REQUIRED \in DOMAIN LastOptions \/ last.cased # <<>>

\* C29: no domain validator is ever invoked with the empty string: a required
\* field with an empty value has failed the required check before validation,
\* a field that is not required skips validation of an empty value, and so the
\* `required` half of the skip condition never changes the outcome.
C29_NoValidatorOnEmpty ==
  /\ ValidatorInvoked => last.cased # <<>>
  /\ (Stepped /\ REQUIRED \in DOMAIN LastOptions /\ last.val = <<>>)
       => last.err.kind = "required"
  /\ (ScalarChecked /\ last.cased = <<>>)
       => last.err.kind \notin ValidatorErrors
  /\ ScalarChecked
       => checkForAwsValidation(LastField.Name, last.cased, LastOptions)
            = checkForAwsValidation(LastField.Name, last.cased,
                                    NotRequired(LastOptions))

\* C29 witness: Req, with required and v_aws_region, met an environment without
\* Q and failed the required check
C29_Witness ==
  /\ scen.root = "Region"
  /\ Stepped
  /\ last.path = <<3>>
  /\ <<"Q">> \notin DOMAIN environ
  /\ last.cased = <<>>
  /\ result.kind = "required"

\* ---------------------------------------------------------------------------
\* Call order of the separator setters (C30)
\* ---------------------------------------------------------------------------

\* the separators are those of NewParser()
Defaults ==
  /\ parser.TagOptionSeparator = DefaultTagOptionSeparator
  /\ parser.SliceValueSeparator = DefaultSliceValueSeparator

\* the separators are those of NewParser(), swapped
Swapped ==
  /\ parser.TagOptionSeparator = DefaultSliceValueSeparator
  /\ parser.SliceValueSeparator = DefaultTagOptionSeparator

\* C30: each separator setter checks only against the other separator's current
\* value, so what can be reached depends on call order: from NewParser() no
\* single call makes "|" the option separator or "," the list separator (both
\* calls panic), and the swapped configuration is entered only from one where a
\* separator has a third value; while both setters are only ever handed "," and
\* "|" the parser stays as NewParser() made it.
C30_SwapNeedsThirdValue ==
  /\ [][Defaults => /\ parser'.TagOptionSeparator # DefaultSliceValueSeparator
                    /\ parser'.SliceValueSeparator # DefaultTagOptionSeparator]_vars
  /\ [][(~Swapped /\ Swapped')
          => \/ parser.TagOptionSeparator \notin DefaultSeps
             \/ parser.SliceValueSeparator \notin DefaultSeps]_vars
  /\ []((scen.tagSeps \cup scen.sliceSeps) \subseteq DefaultSeps => Defaults)

\* C30 witness: by way of the list separator ";" the parser has come to the
\* option separator "|" and the list separator ",", without a panic
C30_Witness ==
  /\ Swapped
  /\ ~panicked

====
